---------------------------- MODULE Spec2Model ----------------------------
(* The DA task of a HotShot node (crates/task-impls/src/da.rs) together   *)
(* with the vote accumulation and certificate checks of the consensus     *)
(* exchange (types/src/traits/election.rs), as one state machine: one     *)
(* action per handled bus event.                                          *)
EXTENDS Integers, Sequences, FiniteSets, TLC

(***************************************************************************)
(* Bounds of the model.                                                    *)
(***************************************************************************)
\* views are 0..MaxView
MaxView == 2
\* epochs are 0..MaxEpoch
MaxEpoch == 1
\* DaProposalValidated events sent in a run
MaxValidated == 2
\* votes counted by the vote collectors in a run
MaxVotes == 4

Views == 0..MaxView
Epochs == 0..MaxEpoch

\* encoded transactions a proposal may carry
Payloads == {"txA", "txB"}
NoPayload == "none"

\* signature keys: n1..n4 are committee members, n5 is a node outside it
Keys == {"n1", "n2", "n3", "n4", "n5"}
\* the identities the modelled node may run under
OwnKeys == {"n1", "n5"}

(***************************************************************************)
(* Membership: stake tables, leader election, thresholds.                  *)
(***************************************************************************)
Entry(k, s) == [stake_key |-> k, stake_amount |-> s]

\* the ordered stake table of an epoch: uniform stake in even epochs,
\* stakes 2,2,2,1 in odd epochs
StakeTable(epoch) ==
    IF epoch % 2 = 0
    THEN << Entry("n1", 1), Entry("n2", 1), Entry("n3", 1), Entry("n4", 1) >>
    ELSE << Entry("n2", 2), Entry("n1", 2), Entry("n3", 2), Entry("n4", 1) >>

RECURSIVE SumStake(_, _)
\* the stake of the table positions in idxs
SumStake(table, idxs) ==
    IF idxs = {} THEN 0
    ELSE LET i == CHOOSE x \in idxs : TRUE
         IN table[i].stake_amount + SumStake(table, idxs \ {i})

total_nodes(epoch) == Len(StakeTable(epoch))

TotalStake(epoch) == SumStake(StakeTable(epoch), 1..Len(StakeTable(epoch)))

\* the smallest stake that implies a Byzantine quorum
success_threshold(epoch) == (2 * TotalStake(epoch)) \div 3 + 1

\* the leader of a view: index view mod n into the epoch's stake table
leader(view, epoch) ==
    StakeTable(epoch)[(view % Len(StakeTable(epoch))) + 1].stake_key

has_da_stake(key, epoch) ==
    \E i \in 1..Len(StakeTable(epoch)) : StakeTable(epoch)[i].stake_key = key

(***************************************************************************)
(* Hashing, signing, commitments.                                          *)
(***************************************************************************)
\* Sha256::digest of the encoded transactions: collision free
Sha256(bytes) == << "sha256", bytes >>

\* SignatureKey::sign: a signature names the key that made it and the
\* message it was made over
Sign(key, msg) == [signer |-> key, msg |-> msg]

\* SignatureKey::validate
validate(key, signature, msg) == signature.signer = key /\ signature.msg = msg

\* vid_commitment of the encoded transactions for a committee size
vid_commitment(txns, num_nodes) == << "vid", txns, num_nodes >>

PayloadCommits == { vid_commitment(t, total_nodes(e)) : t \in Payloads, e \in Epochs }

(***************************************************************************)
(* Proposals that may arrive.                                              *)
(***************************************************************************)
\* the keys a DA proposal may come from: every leader of a view in 0..2 is one
Senders == {"n1", "n2", "n3"}

\* the signatures a proposal with transactions t sent by s may carry: the
\* sender's over the hash of t, the sender's over another hash, and another
\* key's over the hash of t
ProposalSignatures(t, s) ==
    { Sign(s, Sha256(t)),
      Sign(s, Sha256(IF t = "txA" THEN "txB" ELSE "txA")),
      Sign(IF s = "n1" THEN "n2" ELSE "n1", Sha256(t)) }

DaProposal(view, t, sig) ==
    [view_number |-> view, encoded_transactions |-> t, signature |-> sig]

VARIABLES
    public_key,        \* this node's key
    cur_view,          \* DaTaskState.cur_view
    cur_epoch,         \* DaTaskState.cur_epoch
    consensus_view,    \* Consensus.cur_view
    saved_payloads,    \* Consensus.saved_payloads: view -> encoded transactions
    da_views,          \* Consensus validated state map, DA entries: view -> commitment
    storage,           \* DA proposals appended to storage: view -> commitment
    bus,               \* DaProposalValidated events sent and not yet handled
    out,               \* the events the last handled event emitted
    votes_sent,        \* every DaVoteSend emitted so far, as (view, commitment)
    lastEvent,         \* the last handled event: kind, view, sender
    result,            \* what handling it returned
    validated_sent,    \* the number of DaProposalValidated events sent so far
    vote_collectors,   \* DaTaskState.vote_collectors: view -> vote accumulator
    certs_sent,        \* the number of DaCertificateSend events emitted, per view
    votes_counted,     \* the number of votes the collectors have counted so far
    crashed,           \* the task has panicked
    checked,           \* the vote or certificate last handed to a validation function
    verdict,           \* what the validation function returned for it
    tasks,             \* the DA task state of every node of a network: key -> state
    pending,           \* the events sent to a node of the network and not yet handled
    emitted,           \* every event the nodes of the network have broadcast
    pc,                \* where each task sharing the consensus state and storage is
    locks,             \* who holds the consensus read and write locks and the storage lock
    vid_state          \* the VID shares of the consensus state and the detached VID tasks

vars == << public_key, cur_view, cur_epoch, consensus_view, saved_payloads, da_views,
           storage, bus, out, votes_sent, lastEvent, result, validated_sent,
           vote_collectors, certs_sent, votes_counted, crashed, checked, verdict,
           tasks, pending, emitted, pc, locks, vid_state >>

\* the state of the vote path
voteVars == << vote_collectors, certs_sent, votes_counted, crashed >>

\* the state of the validation functions
checkVars == << checked, verdict >>


\* the state of a network of nodes
netVars == << tasks, pending, emitted >>

\* the state of the tasks of one node that share its locks
lockVars == << pc, locks, vid_state >>

\* detached VID tasks alive at a time
MaxVidTasks == 2

\* the tasks of a node: its DA task handling events (task 0), and the VID
\* tasks it has detached
DaProcs == {0}
VidProcs == 1..MaxVidTasks
Procs == DaProcs \cup VidProcs
NoProc == -1

NoCommit == << "none" >>
NoKey == "none"

\* the tally of the votes for one commitment: accumulated stake, signer
\* bitset (the set of marked stake table positions) and the signatures
\* folded into the aggregate
EmptyTally == [stake |-> 0, bitset |-> {}, aggregate |-> {}]

\* a vote accumulator: the signers seen and one tally per commitment
Accumulator(status) ==
    [status |-> status, signers |-> {}, vote_outcomes |-> [c \in PayloadCommits |-> EmptyTally]]

\* no collector for the view yet / a collector accumulating votes / the
\* collector of a view whose certificate was emitted
NoCollector == Accumulator("none")
NewCollector == Accumulator("open")
FinishedCollector == Accumulator("finished")

\* the DA task of a node after construction
NewTask ==
    [cur_view |-> 0, cur_epoch |-> 0, consensus_view |-> 0,
     saved_payloads |-> [v \in Views |-> NoPayload],
     da_views |-> [v \in Views |-> NoCommit],
     storage |-> [v \in Views |-> NoCommit],
     vote_collectors |-> [v \in Views |-> NoCollector]]

\* what lastEvent keeps of a handled event: its kind, its view and its sender
Handled(kind, view, sender) == [kind |-> kind, view_number |-> view, sender |-> sender]

\* the task after construction
InitTask ==
    /\ public_key \in OwnKeys
    /\ cur_view = 0
    /\ cur_epoch = 0
    /\ consensus_view = 0
    /\ saved_payloads = [v \in Views |-> NoPayload]
    /\ da_views = [v \in Views |-> NoCommit]
    /\ storage = [v \in Views |-> NoCommit]
    /\ bus = << >>
    /\ out = {}
    /\ votes_sent = {}
    /\ lastEvent = Handled("None", 0, NoKey)
    /\ result = "Ok"
    /\ validated_sent = 0
    /\ vote_collectors = [v \in Views |-> NoCollector]
    /\ certs_sent = [v \in Views |-> 0]
    /\ votes_counted = 0
    /\ crashed = FALSE
    /\ pending = {}
    /\ emitted = {}
    /\ pc = [p \in Procs |-> IF p \in DaProcs THEN "idle" ELSE "unspawned"]
    /\ locks = [readers |-> {}, writer |-> NoProc, storage |-> NoProc]
    /\ vid_state = [shares |-> [v \in Views |-> FALSE],
                    horizon |-> 0,
                    view_of |-> [p \in VidProcs |-> 0],
                    primary_down |-> [p \in VidProcs |-> FALSE],
                    last |-> "none"]

\* one task alone, with no network of nodes around it
Init ==
    /\ InitTask
    /\ tasks = << >>
    /\ checked = [fn |-> "none"]
    /\ verdict = "none"

\* the nodes of a network, and the tasks of a node, after construction
InitNetwork ==
    /\ InitTask
    /\ public_key = "n1"
    /\ tasks = [k \in Keys |-> NewTask]
    /\ checked = [fn |-> "none"]
    /\ verdict = "none"

(***************************************************************************)
(* DaProposalRecv                                                          *)
(***************************************************************************)
\* da.rs 104-107: a proposal more than one view older than cur_view
StaleProposalOffByOne(cur, view) == ~(cur <= view)
StaleProposal(cur, view) == ~(cur <= view + 1)

\* da.rs 109-120: a payload is already saved for the view
HasSavedPayloadNever(payloads, view) == FALSE
HasSavedPayload(payloads, view) == payloads[view] # NoPayload

\* da.rs 123-131: the sender is not the leader of the proposal's view
WrongLeaderNever(sender, view, epoch) == FALSE
WrongLeaderInverted(sender, view, epoch) == leader(view, epoch) = sender
WrongLeader(sender, view, epoch) == leader(view, epoch) # sender

\* da.rs 122, 133-136: the leader's signature over the hash of the transactions
ProposalSignatureUnchecked(proposal, view_leader_key) == TRUE
ProposalSignatureValid(proposal, view_leader_key) ==
    validate(view_leader_key, proposal.signature, Sha256(proposal.encoded_transactions))

\* the Err of the first failing ensure!, or Ok
DaProposalRecvResultLeaderFirst(proposal, sender) ==
    LET view == proposal.view_number IN
    IF WrongLeader(sender, view, cur_epoch) THEN "WrongLeader"
    ELSE IF ~ProposalSignatureValid(proposal, leader(view, cur_epoch)) THEN "BadSignature"
    ELSE IF StaleProposal(cur_view, view) THEN "Stale"
    ELSE IF HasSavedPayload(saved_payloads, view) THEN "DuplicatePayload"
    ELSE "Ok"
DaProposalRecvResult(proposal, sender) ==
    LET view == proposal.view_number IN
    IF StaleProposal(cur_view, view) THEN "Stale"
    ELSE IF HasSavedPayload(saved_payloads, view) THEN "DuplicatePayload"
    ELSE IF WrongLeader(sender, view, cur_epoch) THEN "WrongLeader"
    ELSE IF ~ProposalSignatureValid(proposal, leader(view, cur_epoch)) THEN "BadSignature"
    ELSE "Ok"

ValidatedEvent(proposal, sender) ==
    [kind |-> "DaProposalValidated", proposal |-> proposal, sender |-> sender]

\* da.rs 104-131: the three checks that read neither the payload nor the
\* signature of the proposal
RejectedUnread(view, sender) ==
    \/ StaleProposal(cur_view, view)
    \/ HasSavedPayload(saved_payloads, view)
    \/ WrongLeader(sender, view, cur_epoch)

\* a proposal rejected before its payload and signature are read is taken
\* with one payload and one signature: nothing keeps them
HandleDaProposalRecv ==
    /\ ~crashed
    /\ \E view \in Views, sender \in Senders :
       \E t \in IF RejectedUnread(view, sender) THEN {"txA"} ELSE Payloads :
       \E sig \in IF RejectedUnread(view, sender) THEN {Sign(sender, Sha256(t))}
                  ELSE ProposalSignatures(t, sender) :
        LET proposal == DaProposal(view, t, sig) IN
        \E res \in {DaProposalRecvResult(proposal, sender)} :
        /\ res = "Ok" => validated_sent < MaxValidated
        /\ validated_sent' = IF res = "Ok" THEN validated_sent + 1 ELSE validated_sent
        /\ lastEvent' = Handled("DaProposalRecv", view, sender)
        /\ result' = res
        /\ out' = IF res = "Ok" THEN {ValidatedEvent(proposal, sender)} ELSE {}
        /\ bus' = IF res = "Ok" THEN Append(bus, ValidatedEvent(proposal, sender)) ELSE bus
        /\ UNCHANGED << public_key, cur_view, cur_epoch, consensus_view, saved_payloads,
                        da_views, storage, votes_sent >>
        /\ UNCHANGED voteVars
        /\ UNCHANGED << checkVars, netVars, lockVars >>

(***************************************************************************)
(* Vote data and DA votes (election.rs).                                   *)
(***************************************************************************)
VoteKinds == {"DA", "Yes", "No", "Timeout", "ViewSyncPreCommit", "ViewSyncCommit",
              "ViewSyncFinalize"}

VoteData(kind, commit) == [kind |-> kind, commit |-> commit]

\* Committable for VoteData: a hash labelled with the variant's tag and the
\* name of its field
VoteDataCommitUntagged(data) == << "Commit", "commitment", data.commit >>
VoteDataCommit(data) ==
    CASE data.kind = "DA" -> << "DA Block Commit", "block_commitment", data.commit >>
      [] data.kind = "Yes" -> << "Yes Vote Commit", "leaf_commitment", data.commit >>
      [] data.kind = "No" -> << "No Vote Commit", "leaf_commitment", data.commit >>
      [] data.kind = "Timeout" ->
            << "Timeout View Number Commit", "view_number_commitment", data.commit >>
      [] data.kind = "ViewSyncPreCommit" -> << "ViewSyncPreCommit", "commitment", data.commit >>
      [] data.kind = "ViewSyncCommit" -> << "ViewSyncCommit", "commitment", data.commit >>
      [] data.kind = "ViewSyncFinalize" -> << "ViewSyncFinalize", "commitment", data.commit >>

\* the stake table entry of a key in an epoch (the exchange's own entry)
OwnEntry(key, epoch) ==
    LET table == StakeTable(epoch)
        at == { i \in 1..Len(table) : table[i].stake_key = key }
    IN IF at = {} THEN Entry(key, 0) ELSE table[CHOOSE i \in at : TRUE]

\* Membership::make_vote_token: a token names the key it was made for
make_vote_token(key) == [owner |-> key]

\* CommitteeExchange::sign_da_vote: (encoded key, signature, stake entry)
sign_da_vote(key, entry, block_commitment) ==
    [ encoded_key |-> key,
      encoded_signature |-> Sign(key, VoteDataCommit(VoteData("DA", block_commitment))),
      entry |-> entry ]

\* CommitteeExchange::create_da_message
create_da_message(key, entry, block_commitment, current_view, vote_token) ==
    [ signature |-> sign_da_vote(key, entry, block_commitment),
      block_commitment |-> block_commitment,
      current_view |-> current_view,
      vote_token |-> vote_token,
      vote_data |-> VoteData("DA", block_commitment) ]

\* Committable for the view number
ViewCommit(view_number) == << "View Number Commit", view_number >>

\* election.rs 876-886 (QuorumExchange::sign_yes_vote); the raw commitment
\* is what sign_validating_or_commitment_proposal signs
sign_yes_vote_raw(key, entry, leaf_commitment) ==
    [ encoded_key |-> key,
      encoded_signature |-> Sign(key, leaf_commitment),
      entry |-> entry ]
sign_yes_vote(key, entry, leaf_commitment) ==
    [ encoded_key |-> key,
      encoded_signature |-> Sign(key, VoteDataCommit(VoteData("Yes", leaf_commitment))),
      entry |-> entry ]

\* election.rs 892-901 (QuorumExchange::sign_no_vote)
sign_no_vote(key, entry, leaf_commitment) ==
    [ encoded_key |-> key,
      encoded_signature |-> Sign(key, VoteDataCommit(VoteData("No", leaf_commitment))),
      entry |-> entry ]

\* election.rs 903-916 (QuorumExchange::sign_timeout_vote)
sign_timeout_vote(key, entry, view_number) ==
    [ encoded_key |-> key,
      encoded_signature |->
          Sign(key, VoteDataCommit(VoteData("Timeout", ViewCommit(view_number)))),
      entry |-> entry ]

\* election.rs 838-857 (QuorumExchange::create_yes_message)
create_yes_message(key, entry, justify_qc_commitment, leaf_commitment, current_view, vote_token) ==
    [ justify_qc_commitment |-> justify_qc_commitment,
      signature |-> sign_yes_vote(key, entry, leaf_commitment),
      leaf_commitment |-> leaf_commitment,
      current_view |-> current_view,
      vote_token |-> vote_token,
      vote_data |-> VoteData("Yes", leaf_commitment) ]

\* election.rs 918-937 (QuorumExchange::create_no_message)
create_no_message(key, entry, justify_qc_commitment, leaf_commitment, current_view, vote_token) ==
    [ justify_qc_commitment |-> justify_qc_commitment,
      signature |-> sign_no_vote(key, entry, leaf_commitment),
      leaf_commitment |-> leaf_commitment,
      current_view |-> current_view,
      vote_token |-> vote_token,
      vote_data |-> VoteData("No", leaf_commitment) ]

\* election.rs 939-957 (QuorumExchange::create_timeout_message); a
\* signature that covered the justify_qc would be one over both
create_timeout_message_signing_qc(key, entry, justify_qc, current_view, vote_token) ==
    [ justify_qc |-> justify_qc,
      signature |->
          [ encoded_key |-> key,
            encoded_signature |->
                Sign(key, VoteDataCommit(VoteData("Timeout",
                                                  << ViewCommit(current_view), justify_qc >>))),
            entry |-> entry ],
      current_view |-> current_view,
      vote_token |-> vote_token,
      vote_data |-> VoteData("Timeout", ViewCommit(current_view)) ]
create_timeout_message(key, entry, justify_qc, current_view, vote_token) ==
    [ justify_qc |-> justify_qc,
      signature |-> sign_timeout_vote(key, entry, current_view),
      current_view |-> current_view,
      vote_token |-> vote_token,
      vote_data |-> VoteData("Timeout", ViewCommit(current_view)) ]

\* election.rs 1164-1174, 1205-1215, 1246-1256 (ViewSyncExchange::
\* sign_precommit_message, sign_commit_message, sign_finalize_message)
sign_view_sync_message(kind, key, entry, commitment) ==
    [ encoded_key |-> key,
      encoded_signature |-> Sign(key, VoteDataCommit(VoteData(kind, commitment))),
      entry |-> entry ]

(***************************************************************************)
(* DaProposalValidated                                                     *)
(***************************************************************************)
\* Storage::append_da: one record per view, a second append for a view
\* leaves the first record
append_da(store, view, commit) ==
    IF store[view] # NoCommit THEN store ELSE [store EXCEPT ![view] = commit]

\* Consensus::update_da_view
update_da_view(views, view, commit) == [views EXCEPT ![view] = commit]

\* Consensus::update_da_view returns Ok, unless it refuses to replace the
\* entry the view already has
update_da_view_ok(views, view, refuses) == ~(views[view] # NoCommit /\ refuses)

\* Consensus::update_saved_payloads: an error when the view has a payload
update_saved_payloads(payloads, view, txns) ==
    IF payloads[view] # NoPayload
    THEN [ok |-> FALSE, payloads |-> payloads]
    ELSE [ok |-> TRUE, payloads |-> [payloads EXCEPT ![view] = txns]]

\* da.rs 213-219: record the payload, the error of update_saved_payloads
\* is traced and dropped
RecordPayloadOverwriting(payloads, view, txns) == [payloads EXCEPT ![view] = txns]
RecordPayload(payloads, view, txns) == update_saved_payloads(payloads, view, txns).payloads

\* da.rs 182-188: the error of append_da is returned with ?
StorageFailureIgnored(storage_ok) == FALSE
StorageFailed(storage_ok) == ~storage_ok

\* da.rs 209-211: record the view in the DA view map; update_da_view may
\* fail, and then the map is left as it was
RecordDaView(views, view, commit, da_view_ok) ==
    IF da_view_ok THEN update_da_view(views, view, commit) ELSE views

\* da.rs 209-219: what handle returns after the two updates of the
\* consensus state: their errors are traced and dropped
ConsensusErrorReturned(da_view_ok, payload_ok) ==
    IF da_view_ok /\ payload_ok THEN "Ok" ELSE "ConsensusError"
ConsensusErrorSwallowed(da_view_ok, payload_ok) == "Ok"

\* da.rs 168-175: this node has no DA stake in the epoch
NoDaStakeNever(key, epoch) == FALSE
NoDaStake(key, epoch) == ~has_da_stake(key, epoch)

\* da.rs 146-153: the validated proposal is too old for the consensus view
StaleValidated(cur, view) == ~(cur <= view + 1)

AppDaProposal(proposal, sender) ==
    [kind |-> "AppDaProposal", view_number |-> cur_view, proposal |-> proposal,
     sender |-> sender]

\* da.rs 144-256: the handling of DaProposalValidated from the first await to
\* the return, with a key whose signing succeeds; the steps between the await
\* points, the failure of create_signed_vote among them, are ValidatedCheck to
\* ValidatedUpdateConsensus
HandleDaProposalValidated ==
    /\ ~crashed
    /\ bus # << >>
    /\ \E storage_ok \in BOOLEAN, refuses \in BOOLEAN, is_primary_down \in BOOLEAN :
        LET ev == Head(bus)
            proposal == ev.proposal
            view_number == proposal.view_number
            txns == proposal.encoded_transactions
            payload_commitment == vid_commitment(txns, total_nodes(cur_epoch))
            vote == create_da_message(public_key, OwnEntry(public_key, cur_epoch),
                                      payload_commitment, view_number,
                                      make_vote_token(public_key))
            app == AppDaProposal(proposal, ev.sender)
            res == IF StaleValidated(consensus_view, view_number) THEN "Stale"
                   ELSE IF NoDaStake(public_key, cur_epoch) THEN "NoDaStake"
                   ELSE IF StorageFailed(storage_ok) THEN "StorageError"
                   ELSE "Ok"
            da_view_ok == update_da_view_ok(da_views, view_number, refuses)
            payload_ok == update_saved_payloads(saved_payloads, view_number, txns).ok
            updated == ConsensusErrorSwallowed(da_view_ok, payload_ok)
        IN
        /\ bus' = Tail(bus)
        /\ lastEvent' = Handled("DaProposalValidated", view_number, ev.sender)
        /\ result' = IF res = "Ok" THEN updated ELSE res
        /\ out' = CASE res = "Stale" -> {}
                    [] res \in {"NoDaStake", "StorageError"} -> {app}
                    [] OTHER ->
                        {app, [kind |-> "DaVoteSend", vote |-> vote]}
                        \cup IF updated = "Ok" /\ is_primary_down
                             THEN {[kind |-> "VidTaskSpawned", view_number |-> view_number,
                                    epoch |-> cur_epoch]}
                             ELSE {}
        /\ IF res = "Ok"
           THEN /\ storage' = IF storage_ok
                              THEN append_da(storage, view_number, payload_commitment)
                              ELSE storage
                /\ votes_sent' = votes_sent \cup
                        {[view_number |-> view_number, payload_commit |-> payload_commitment]}
                /\ da_views' = RecordDaView(da_views, view_number, payload_commitment,
                                            da_view_ok)
                /\ saved_payloads' = RecordPayload(saved_payloads, view_number, txns)
           ELSE UNCHANGED << storage, votes_sent, da_views, saved_payloads >>
        /\ UNCHANGED << public_key, cur_view, cur_epoch, consensus_view, validated_sent >>
        /\ UNCHANGED voteVars
        /\ UNCHANGED << checkVars, netVars, lockVars >>

(***************************************************************************)
(* ViewChange, BlockRecv, and the consensus view moved by other tasks      *)
(***************************************************************************)
\* what lastEvent keeps of a ViewChange: its view and its epoch
HandledViewChange(view, epoch) ==
    [kind |-> "ViewChange", view_number |-> view, sender |-> NoKey, epoch |-> epoch]

\* da.rs 286-288: the epoch of the event is newer than cur_epoch
AnyEpoch(cur, epoch) == TRUE
NewerEpoch(cur, epoch) == epoch > cur

\* da.rs 291-294: the view of the event is newer than cur_view
AnyView(cur, view) == TRUE
NewerView(cur, view) == cur < view

HandleViewChange ==
    /\ ~crashed
    /\ \E view \in Views, epoch \in Epochs :
        /\ lastEvent' = HandledViewChange(view, epoch)
        /\ cur_epoch' = IF NewerEpoch(cur_epoch, epoch) THEN epoch ELSE cur_epoch
        /\ IF NewerView(cur_view, view)
           THEN cur_view' = view /\ result' = "Ok"
           ELSE cur_view' = cur_view /\ result' = "OlderView"
        /\ out' = {}
        /\ UNCHANGED << public_key, consensus_view, saved_payloads, da_views, storage,
                        bus, votes_sent, validated_sent >>
        /\ UNCHANGED voteVars
        /\ UNCHANGED << checkVars, netVars, lockVars >>

\* da.rs 311-317: the signature of the proposal, over the hash of the
\* encoded transactions as opposed to the VID commitment
ProposalSignatureOverCommitment(private_key, encoded_transactions) ==
    Sign(private_key, vid_commitment(encoded_transactions, total_nodes(0)))
ProposalSignature(private_key, encoded_transactions) ==
    Sign(private_key, Sha256(encoded_transactions))

HandleBlockRecv ==
    /\ ~crashed
    /\ \E view_number \in Views, encoded_transactions \in Payloads :
        LET signature == ProposalSignature(public_key, encoded_transactions)
            message == DaProposal(view_number, encoded_transactions, signature)
        IN
        /\ lastEvent' = Handled("BlockRecv", view_number, NoKey)
        /\ result' = "Ok"
        /\ out' = {[kind |-> "DaProposalSend", proposal |-> message, sender |-> public_key]}
        /\ UNCHANGED << public_key, cur_view, cur_epoch, consensus_view, saved_payloads,
                        da_views, storage, bus, votes_sent, validated_sent >>
        /\ UNCHANGED voteVars
        /\ UNCHANGED << checkVars, netVars, lockVars >>

\* another task moves the view of the shared consensus state forward
ConsensusUpdateView ==
    \E view \in Views :
        /\ view > consensus_view
        /\ consensus_view' = view
        /\ lastEvent' = Handled("ConsensusUpdateView", view, NoKey)
        /\ result' = "Ok"
        /\ out' = {}
        /\ UNCHANGED << public_key, cur_view, cur_epoch, saved_payloads, da_views, storage,
                        bus, votes_sent, validated_sent >>
        /\ UNCHANGED voteVars
        /\ UNCHANGED << checkVars, netVars, lockVars >>

(***************************************************************************)
(* DA votes that may arrive.                                               *)
(***************************************************************************)
\* an encoded key that SignatureKey::from_bytes does not decode
Undecodable == "bad"

\* SignatureKey::from_bytes
from_bytes(encoded_key) == IF encoded_key \in Keys THEN encoded_key ELSE NoKey

\* the member that may deviate from the protocol
Byzantine == "n4"

\* the vote a node running the protocol under key k sends for commitment c
\* in a view
HonestVote(k, c, view, epoch) ==
    create_da_message(k, OwnEntry(k, epoch), c, view, make_vote_token(k))

\* the votes the deviating member may send instead: an undecodable key, a
\* signature over the Yes vote data, another key's signature, the stake
\* entry of another member, the stake entry of a node outside the
\* committee, a vote token made for another key
ByzantineVotes(c, view, epoch) ==
    LET b == HonestVote(Byzantine, c, view, epoch) IN
    { [b EXCEPT !.signature.encoded_key = Undecodable],
      [b EXCEPT !.signature.encoded_signature =
                    Sign(Byzantine, VoteDataCommit(VoteData("Yes", c)))],
      [b EXCEPT !.signature.encoded_signature =
                    Sign("n3", VoteDataCommit(VoteData("DA", c)))],
      [b EXCEPT !.signature.entry = OwnEntry("n3", epoch)],
      [b EXCEPT !.signature.entry = OwnEntry("n5", epoch)],
      [b EXCEPT !.vote_token = make_vote_token("n5")] }

\* votes are sent to the leader of their view: the views a node running
\* under key k gets votes for are those it leads in some epoch
VoteViews(k) == { view \in Views : \E e \in Epochs : leader(view, e) = k }

\* the commitment of the payload the leader proposed: the nodes running the
\* protocol vote for it, the deviating member for any commitment
ProposedCommit(epoch) == vid_commitment("txA", total_nodes(epoch))

\* the votes that may be sent for a view
DaVotesOf(view, epoch) ==
    { HonestVote(voter, ProposedCommit(epoch), view, epoch) : voter \in Keys }
        \cup { HonestVote(Byzantine, c, view, epoch) : c \in PayloadCommits }
        \cup UNION { ByzantineVotes(c, view, epoch) : c \in PayloadCommits }

DaVotes(k, epoch) == UNION { DaVotesOf(view, epoch) : view \in VoteViews(k) }

(***************************************************************************)
(* Vote accumulation (election.rs) and the vote collectors of the task.    *)
(***************************************************************************)
\* a token the membership fails on / a token it cannot check yet
BrokenToken == [owner |-> Undecodable]
UncheckableToken == [owner |-> NoKey]

\* Membership::validate_vote_token, one of Err(_), Ok(Checked::Unchecked(_)),
\* Ok(Checked::Valid(_)), Ok(Checked::Inval(_)): the token is valid for the
\* key it was made for, when that key has stake
validate_vote_token(pub_key, token, epoch) ==
    IF token = BrokenToken THEN "Err"
    ELSE IF token = UncheckableToken THEN "Unchecked"
    ELSE IF token.owner = pub_key /\ has_da_stake(pub_key, epoch) THEN "Valid"
    ELSE "Inval"

\* election.rs 443-450: is_valid_vote_token of the membership's answer
TokenAcceptedUnchecked(valid_vote_token) == valid_vote_token \in {"Valid", "Unchecked"}
TokenAccepted(valid_vote_token) == valid_vote_token = "Valid"

\* election.rs 427-453
is_valid_vote(encoded_key, encoded_signature, data, vote_token, epoch) ==
    LET key == from_bytes(encoded_key) IN
    /\ key # NoKey
    /\ validate(key, encoded_signature, VoteDataCommit(data))
    /\ TokenAccepted(validate_vote_token(key, vote_token, epoch))

\* the positions of an entry in a stake table (election.rs 474, the
\* argument of unwrap)
position(table, entry) == { i \in 1..Len(table) : table[i] = entry }

\* VoteAccumulator::append: a signer already seen changes nothing; else its
\* vote is added to the tally of its commitment, and the tally that reaches
\* the threshold yields the assembled signature
append(accumulator, commitment, encoded_key, encoded_signature, table, node_id, threshold) ==
    IF encoded_key \in accumulator.signers
    THEN [left |-> TRUE, counted |-> FALSE, accumulator |-> accumulator,
          signatures |-> EmptyTally]
    ELSE LET old == accumulator.vote_outcomes[commitment]
             new == [stake |-> old.stake + table[node_id].stake_amount,
                     bitset |-> old.bitset \cup {node_id},
                     aggregate |-> old.aggregate \cup {encoded_signature}]
         IN [left |-> new.stake < threshold,
             counted |-> TRUE,
             accumulator |-> [accumulator EXCEPT
                                 !.signers = @ \cup {encoded_key},
                                 !.vote_outcomes[commitment] = new],
             signatures |-> new]

\* AssembledSignature::DA of an aggregate and its signer bitset
AssembledSignature(kind, tally) ==
    [kind |-> kind, sig |-> tally.aggregate, bitset |-> tally.bitset]

\* DACertificate::from_signatures_and_commitment
from_signatures_and_commitment(view_number, signatures, commit) ==
    [view_number |-> view_number, signatures |-> signatures, leaf_commitment |-> commit,
     is_genesis |-> FALSE]

NoCertificate == << >>

\* election.rs 469-472: a vote that is not valid gives back the accumulator
\* it was fed to
RejectedVoteCleared(accumulator) ==
    [either |-> "Left", result |-> "InvalidVote", accumulator |-> NewCollector,
     certificate |-> NoCertificate]
RejectedVote(accumulator) ==
    [either |-> "Left", result |-> "InvalidVote", accumulator |-> accumulator,
     certificate |-> NoCertificate]

\* election.rs 456-500: Left(accumulator), Right(certificate), or the panic
\* of unwrap on a stake entry that is not in the table
accumulate_internal(vota_meta, accumulator, epoch) ==
    IF ~is_valid_vote(vota_meta.encoded_key, vota_meta.encoded_signature, vota_meta.data,
                      vota_meta.vote_token, epoch)
    THEN RejectedVote(accumulator)
    ELSE LET table == StakeTable(epoch)
             at == position(table, vota_meta.entry)
         IN IF at = {}
            THEN [either |-> "Panic", result |-> "Panic", accumulator |-> accumulator,
                  certificate |-> NoCertificate]
            ELSE LET append_node_id == CHOOSE i \in at : \A j \in at : i <= j
                     r == append(accumulator, vota_meta.commitment, vota_meta.encoded_key,
                                 vota_meta.encoded_signature, table, append_node_id,
                                 success_threshold(epoch))
                 IN IF r.left
                    THEN [either |-> "Left",
                          result |-> IF r.counted THEN "Pending" ELSE "DuplicateSigner",
                          accumulator |-> r.accumulator,
                          certificate |-> NoCertificate]
                    ELSE [either |-> "Right", result |-> "Certificate",
                          accumulator |-> r.accumulator,
                          certificate |->
                              from_signatures_and_commitment(
                                  vota_meta.view_number,
                                  AssembledSignature("DA", r.signatures),
                                  vota_meta.commitment)]

\* election.rs 686-710 (CommitteeExchange::accumulate_vote)
accumulate_vote(encoded_key, encoded_signature, entry, leaf_commitment, vote_data, vote_token, view_number, accumlator, epoch) ==
    LET meta == [encoded_key |-> encoded_key,
                 encoded_signature |-> encoded_signature,
                 entry |-> entry,
                 ver_key |-> entry.stake_key,
                 commitment |-> leaf_commitment,
                 data |-> vote_data,
                 vote_token |-> vote_token,
                 view_number |-> view_number]
    IN accumulate_internal(meta, accumlator, epoch)

\* views kept behind cur_view before their state may be collected
GCWindow == 1

\* a view below the collection horizon of the current view
StaleViewNever(view, view_now, window) == FALSE
StaleView(view, view_now, window) == view < view_now - window

\* what becomes of the collector of a view when its certificate is emitted
KeepCollector(accumulator) == accumulator
DropCollector(accumulator) == FinishedCollector

\* vote_collection::handle_vote: the vote is fed to the collector of its
\* view, created on the first vote; a certificate is sent and the collector
\* dropped, and votes for a view whose certificate was sent are discarded
handle_vote(collectors, vote, epoch, view_now) ==
    LET view == vote.current_view
        unchanged(res) == [result |-> res, collectors |-> collectors, certs |-> {}]
    IN IF StaleView(view, view_now, GCWindow) THEN unchanged("StaleView")
       ELSE IF collectors[view].status = "finished" THEN unchanged("Discarded")
       ELSE LET accumulator == IF collectors[view].status = "none"
                               THEN NewCollector ELSE collectors[view]
                r == accumulate_vote(vote.signature.encoded_key,
                                     vote.signature.encoded_signature,
                                     vote.signature.entry, vote.block_commitment,
                                     vote.vote_data, vote.vote_token, view,
                                     accumulator, epoch)
            IN CASE r.either = "Panic" -> unchanged("Panic")
                 [] r.either = "Left" ->
                        [result |-> r.result,
                         collectors |-> [collectors EXCEPT ![view] = r.accumulator],
                         certs |-> {}]
                 [] r.either = "Right" ->
                        [result |-> r.result,
                         collectors |-> [collectors EXCEPT
                                            ![view] = DropCollector(r.accumulator)],
                         certs |-> {r.certificate}]

\* da.rs 262-269: this node is not the leader of the vote's view
NotViewLeaderNever(view, epoch, key) == FALSE
NotViewLeader(view, epoch, key) == leader(view, epoch) # key

\* da.rs 262-283: what the handling of a vote yields
DaVoteRecvOutcome(vote) ==
    IF NotViewLeader(vote.current_view, cur_epoch, public_key)
    THEN [result |-> "NotLeader", collectors |-> vote_collectors, certs |-> {}]
    ELSE handle_vote(vote_collectors, vote, cur_epoch, cur_view)

\* da.rs 257-284
HandleDaVoteRecv ==
    /\ ~crashed
    /\ \E vote \in DaVotes(public_key, cur_epoch) :
        \E r \in {DaVoteRecvOutcome(vote)} :
        LET view == vote.current_view
            counted == r.result \in {"Pending", "Certificate"}
        IN
        /\ counted => votes_counted < MaxVotes
        /\ votes_counted' = IF counted THEN votes_counted + 1 ELSE votes_counted
        /\ lastEvent' = Handled("DaVoteRecv", view, vote.signature.encoded_key)
        /\ result' = r.result
        /\ vote_collectors' = r.collectors
        /\ out' = { [kind |-> "DaCertificateSend", cert |-> c, sender |-> public_key] :
                    c \in r.certs }
        /\ certs_sent' = [certs_sent EXCEPT ![view] = @ + Cardinality(r.certs)]
        /\ crashed' = (r.result = "Panic")
        /\ UNCHANGED << public_key, cur_view, cur_epoch, consensus_view, saved_payloads,
                        da_views, storage, bus, votes_sent, validated_sent >>
        /\ UNCHANGED << checkVars, netVars, lockVars >>

(***************************************************************************)
(* Certificate validation (election.rs).                                   *)
(***************************************************************************)
\* BitVectorQC::check: the selected members hold at least the threshold
\* and the aggregate is that of their signatures over the message
BitVectorQCCheck(stake_entries, threshold, msg, qc) ==
    /\ qc.bitset \subseteq 1..Len(stake_entries)
    /\ SumStake(stake_entries, qc.bitset) >= threshold
    /\ qc.sig = { Sign(stake_entries[i].stake_key, msg) : i \in qc.bitset }

\* election.rs 362-364: a genesis certificate at the genesis view
GenesisAtGenesisView(qc) == qc.is_genesis /\ qc.view_number = 0

\* election.rs 365-370: the commitment the certificate carries is not the
\* one the caller expects
CommitMismatchNever(leaf_commitment, commit) == FALSE
CommitMismatch(leaf_commitment, commit) == leaf_commitment # commit

\* the kinds of AssembledSignature
CertKinds == {"DA", "Yes", "No", "Genesis", "ViewSyncPreCommit", "ViewSyncCommit",
              "ViewSyncFinalize"}
ViewSyncKinds == {"ViewSyncPreCommit", "ViewSyncCommit", "ViewSyncFinalize"}

\* election.rs 417-421: the match reaches a ViewSync signature and panics
is_valid_cert_panics(qc, commit) ==
    /\ ~GenesisAtGenesisView(qc)
    /\ ~CommitMismatch(qc.leaf_commitment, commit)
    /\ qc.signatures.kind \in ViewSyncKinds

\* election.rs 360-424: whether is_valid_cert returns true
is_valid_cert(qc, commit, epoch) ==
    IF GenesisAtGenesisView(qc) THEN TRUE
    ELSE IF CommitMismatch(qc.leaf_commitment, commit) THEN FALSE
    ELSE CASE qc.signatures.kind \in {"DA", "Yes", "No"} ->
                BitVectorQCCheck(StakeTable(epoch), success_threshold(epoch),
                                 VoteDataCommit(VoteData(qc.signatures.kind,
                                                         qc.leaf_commitment)),
                                 qc.signatures)
           [] qc.signatures.kind = "Genesis" -> TRUE
           [] qc.signatures.kind \in ViewSyncKinds -> FALSE

\* Membership::failure_threshold: the smallest stake that proves success
\* impossible
failure_threshold(epoch) == TotalStake(epoch) \div 3 + 1

\* what a view sync vote is about: the relay's key and the round, and its
\* commitment
ViewSyncData(relay, round) == [relay |-> relay, round |-> round]
ViewSyncDataCommit(data) == << "ViewSyncData", data.relay, data.round >>

\* the assembled signature of each variant of ViewSyncCertificate
KindOfVariant(variant) ==
    CASE variant = "PreCommit" -> "ViewSyncPreCommit"
      [] variant = "Commit" -> "ViewSyncCommit"
      [] variant = "Finalize" -> "ViewSyncFinalize"

ViewSyncCertificate(variant, relay, signatures) ==
    [variant |-> variant, relay |-> relay, signatures |-> signatures]

\* election.rs 1261-1292: the threshold bound by the match on the variant
VariantThreshold(variant, epoch) ==
    IF variant = "PreCommit" THEN failure_threshold(epoch) ELSE success_threshold(epoch)

\* election.rs 1261-1292: the vote data bound by the match on the variant
VariantVoteData(certificate, round, epoch) ==
    ViewSyncData(leader(round + certificate.relay, epoch), round)

\* election.rs 1259-1338: the match on the signatures hands the success
\* threshold to BitVectorQC::check for each view sync kind, and is true for
\* every other kind
is_valid_view_sync_cert(certificate, round, epoch) ==
    LET vote_data == VariantVoteData(certificate, round, epoch)
        raw_signatures == certificate.signatures
    IN IF raw_signatures.kind \in ViewSyncKinds
       THEN BitVectorQCCheck(StakeTable(epoch), success_threshold(epoch),
                             VoteDataCommit(VoteData(raw_signatures.kind,
                                                     ViewSyncDataCommit(vote_data))),
                             raw_signatures)
       ELSE TRUE

\* election.rs 1135-1162, 1176-1203, 1217-1244 (ViewSyncExchange::
\* create_precommit_message, create_commit_message, create_finalize_message)
create_view_sync_message(kind, key, entry, round, relay, vote_token, epoch) ==
    LET relay_pub_key == leader(round + relay, epoch)
        vote_data_internal == ViewSyncData(relay_pub_key, round)
        vote_data_internal_commitment == ViewSyncDataCommit(vote_data_internal)
    IN [ relay_pub_key |-> relay_pub_key,
         relay |-> relay,
         round |-> round,
         signature |-> sign_view_sync_message(kind, key, entry,
                                              vote_data_internal_commitment),
         vote_token |-> vote_token,
         vote_data |-> VoteData(kind, vote_data_internal_commitment) ]

(***************************************************************************)
(* Votes and certificates handed to the validation functions.              *)
(***************************************************************************)
\* the signer bitsets a certificate may carry
BitSets == { {}, {1, 2}, {1, 2, 3}, {2, 3, 4}, {1, 2, 3, 4} }

\* the aggregate of the signatures of the table positions in bitset over
\* the vote data of a kind and a commitment; a forged one lacks the
\* signature of its lowest position
AggregateOf(table, bitset, kind, c, forged) ==
    LET signed == IF forged /\ bitset # {}
                  THEN bitset \ { CHOOSE i \in bitset : \A j \in bitset : i <= j }
                  ELSE bitset
    IN { Sign(table[i].stake_key, VoteDataCommit(VoteData(kind, c))) : i \in signed }

\* a certificate of a kind for a view, carrying a commitment and signatures
Certificate(kind, view, leaf, is_genesis, bitset, sig) ==
    [view_number |-> view,
     signatures |-> [kind |-> kind, sig |-> sig, bitset |-> bitset],
     leaf_commitment |-> leaf,
     is_genesis |-> is_genesis]

\* the certificates handed to is_valid_cert with the commitment the caller
\* expects: the aggregate of a certificate was made over the vote data of
\* signed_kind and signed_commit
CertChecks(epochs) ==
    { [fn |-> "is_valid_cert",
       qc |-> Certificate(kind, view, leaf, is_genesis, bitset,
                          AggregateOf(StakeTable(epoch), bitset, signed.kind, signed.commit,
                                      forged)),
       commit |-> commit,
       epoch |-> epoch,
       signed |-> signed] :
      kind \in CertKinds, view \in Views, epoch \in epochs, is_genesis \in BOOLEAN,
      leaf \in PayloadCommits, commit \in PayloadCommits, bitset \in BitSets,
      signed \in { VoteData(k, c) : k \in VoteKinds, c \in PayloadCommits },
      forged \in BOOLEAN }

\* the votes handed to is_valid_vote: the signature was made by signer over
\* the vote data signed
VoteChecks(epochs) ==
    { [fn |-> "is_valid_vote",
       encoded_key |-> encoded_key,
       encoded_signature |-> Sign(signer, VoteDataCommit(signed)),
       data |-> data,
       vote_token |-> vote_token,
       epoch |-> epoch,
       signed |-> signed] :
      encoded_key \in Keys \cup {Undecodable}, signer \in Keys,
      vote_token \in { make_vote_token(owner) : owner \in Keys }
                         \cup {BrokenToken, UncheckableToken},
      data \in { VoteData(k, c) : k \in VoteKinds, c \in PayloadCommits },
      signed \in { VoteData(k, c) : k \in VoteKinds, c \in PayloadCommits },
      epoch \in epochs }

\* the relays a view sync certificate may name
Relays == {0, 1}

\* the view sync certificates handed to is_valid_view_sync_cert with the
\* round of the caller: the aggregate was made over the vote data of
\* signed.kind on the view sync data of signed.relay and signed.round
ViewSyncChecks(epochs) ==
    { [fn |-> "is_valid_view_sync_cert",
       certificate |->
           ViewSyncCertificate(
               variant, relay,
               [kind |-> kind,
                sig |-> AggregateOf(StakeTable(epoch), bitset, signed.kind,
                                    ViewSyncDataCommit(
                                        ViewSyncData(leader(signed.round + signed.relay, epoch),
                                                     signed.round)),
                                    forged),
                bitset |-> bitset]),
       round |-> round,
       epoch |-> epoch,
       signed |-> signed] :
      variant \in {"PreCommit", "Commit", "Finalize"}, relay \in Relays, kind \in CertKinds,
      bitset \in BitSets, round \in Views, epoch \in epochs,
      signed \in [kind : ViewSyncKinds \cup {"DA"}, relay : Relays, round : Views],
      forged \in BOOLEAN }

\* the quorum certificates a vote may justify itself with
JustifyQcs == {"qcA", "qcB"}

\* the functions that create a vote message, and the vote data kind of each
VoteCreators ==
    {"create_da_message", "create_yes_message", "create_no_message",
     "create_timeout_message", "create_precommit_message", "create_commit_message",
     "create_finalize_message"}

KindOfCreator(fn) ==
    CASE fn = "create_da_message" -> "DA"
      [] fn = "create_yes_message" -> "Yes"
      [] fn = "create_no_message" -> "No"
      [] fn = "create_timeout_message" -> "Timeout"
      [] fn = "create_precommit_message" -> "ViewSyncPreCommit"
      [] fn = "create_commit_message" -> "ViewSyncCommit"
      [] fn = "create_finalize_message" -> "ViewSyncFinalize"

\* the arguments of a vote creation by the exchange of a node: the
\* commitment voted on, the view (the round of a view sync vote), the relay
\* of a view sync vote, the justify_qc of a quorum vote, the vote token
VoteCreations(epochs) ==
    { [fn |-> fn, key |-> key, commitment |-> commitment, view |-> view, relay |-> relay,
       justify_qc |-> justify_qc, vote_token |-> vote_token, epoch |-> epoch] :
      fn \in VoteCreators, key \in Keys, commitment \in PayloadCommits, view \in Views,
      relay \in Relays, justify_qc \in JustifyQcs,
      vote_token \in { make_vote_token(owner) : owner \in {"n1", "n4", "n5"} }
                         \cup {BrokenToken},
      epoch \in epochs }

\* the message the exchange of c.key creates from the arguments c
CreatedVote(c) ==
    LET entry == OwnEntry(c.key, c.epoch) IN
    CASE c.fn = "create_da_message" ->
            create_da_message(c.key, entry, c.commitment, c.view, c.vote_token)
      [] c.fn = "create_yes_message" ->
            create_yes_message(c.key, entry, c.justify_qc, c.commitment, c.view,
                               c.vote_token)
      [] c.fn = "create_no_message" ->
            create_no_message(c.key, entry, c.justify_qc, c.commitment, c.view,
                              c.vote_token)
      [] c.fn = "create_timeout_message" ->
            create_timeout_message(c.key, entry, c.justify_qc, c.view, c.vote_token)
      [] OTHER ->
            create_view_sync_message(KindOfCreator(c.fn), c.key, entry, c.view, c.relay,
                                     c.vote_token, c.epoch)

InitCheck ==
    /\ InitTask
    /\ tasks = << >>
    /\ \/ checked \in VoteChecks(Epochs)
       \/ checked \in CertChecks(Epochs)
       \/ checked \in ViewSyncChecks(Epochs)
       \/ checked \in VoteCreations(Epochs)
    /\ verdict = "none"

\* is_valid_cert applied to the certificate
CheckCert ==
    /\ checked.fn = "is_valid_cert"
    /\ verdict = "none"
    /\ verdict' = IF is_valid_cert_panics(checked.qc, checked.commit) THEN "panic"
                  ELSE IF is_valid_cert(checked.qc, checked.commit, checked.epoch) THEN "true"
                  ELSE "false"
    /\ UNCHANGED << public_key, cur_view, cur_epoch, consensus_view, saved_payloads,
                    da_views, storage, bus, out, votes_sent, lastEvent, result,
                    validated_sent, checked >>
    /\ UNCHANGED << voteVars, netVars, lockVars >>

\* is_valid_vote applied to the vote
CheckVote ==
    /\ checked.fn = "is_valid_vote"
    /\ verdict = "none"
    /\ verdict' = IF is_valid_vote(checked.encoded_key, checked.encoded_signature,
                                   checked.data, checked.vote_token, checked.epoch)
                  THEN "true" ELSE "false"
    /\ UNCHANGED << public_key, cur_view, cur_epoch, consensus_view, saved_payloads,
                    da_views, storage, bus, out, votes_sent, lastEvent, result,
                    validated_sent, checked >>
    /\ UNCHANGED << voteVars, netVars, lockVars >>

\* is_valid_view_sync_cert applied to the view sync certificate
CheckViewSyncCert ==
    /\ checked.fn = "is_valid_view_sync_cert"
    /\ verdict = "none"
    /\ verdict' = IF is_valid_view_sync_cert(checked.certificate, checked.round,
                                             checked.epoch)
                  THEN "true" ELSE "false"
    /\ UNCHANGED << public_key, cur_view, cur_epoch, consensus_view, saved_payloads,
                    da_views, storage, bus, out, votes_sent, lastEvent, result,
                    validated_sent, checked >>
    /\ UNCHANGED << voteVars, netVars, lockVars >>

\* a vote message is created and sent
CreateVote ==
    /\ checked.fn \in VoteCreators
    /\ verdict = "none"
    /\ checked' = [fn |-> "vote", created |-> checked, message |-> CreatedVote(checked),
                   replaced |-> FALSE]
    /\ UNCHANGED << public_key, cur_view, cur_epoch, consensus_view, saved_payloads,
                    da_views, storage, bus, out, votes_sent, lastEvent, result,
                    validated_sent, verdict >>
    /\ UNCHANGED << voteVars, netVars, lockVars >>

\* the justify_qc of a timeout vote is replaced on its way
ReplaceJustifyQc ==
    /\ checked.fn = "vote"
    /\ verdict = "none"
    /\ checked.created.fn = "create_timeout_message"
    /\ ~checked.replaced
    /\ \E justify_qc \in JustifyQcs \ {checked.message.justify_qc} :
          checked' = [checked EXCEPT !.message.justify_qc = justify_qc,
                                     !.replaced = TRUE]
    /\ UNCHANGED << public_key, cur_view, cur_epoch, consensus_view, saved_payloads,
                    da_views, storage, bus, out, votes_sent, lastEvent, result,
                    validated_sent, verdict >>
    /\ UNCHANGED << voteVars, netVars, lockVars >>

\* is_valid_vote applied to the vote message received
CheckCreatedVote ==
    /\ checked.fn = "vote"
    /\ verdict = "none"
    /\ verdict' = IF is_valid_vote(checked.message.signature.encoded_key,
                                   checked.message.signature.encoded_signature,
                                   checked.message.vote_data, checked.message.vote_token,
                                   checked.created.epoch)
                  THEN "true" ELSE "false"
    /\ UNCHANGED << public_key, cur_view, cur_epoch, consensus_view, saved_payloads,
                    da_views, storage, bus, out, votes_sent, lastEvent, result,
                    validated_sent, checked >>
    /\ UNCHANGED << voteVars, netVars, lockVars >>

(***************************************************************************)
(* A network of nodes, each running the DA task, none of them faulty: an   *)
(* event a node broadcasts is handed to the nodes it is for, in any order. *)
(***************************************************************************)
\* the views the block builder hands a bundle for, to the leader of the view
ProposedViews == {1}

\* an event on its way to the DA task of node dest
Pending(kind, dest, payload, sender) ==
    [kind |-> kind, dest |-> dest, payload |-> payload, sender |-> sender]

\* an event broadcast by the DA task of a node
Emitted(kind, node, view, payload) ==
    [kind |-> kind, node |-> node, view_number |-> view, payload |-> payload]


\* da.rs 301-339 on the leader of a view: the proposal is signed and
\* broadcast, the network hands it to every node
NodeBlockRecv(k) ==
    \E view_number \in ProposedViews, encoded_transactions \in Payloads :
        LET signature == ProposalSignature(k, encoded_transactions)
            message == DaProposal(view_number, encoded_transactions, signature)
        IN
        /\ leader(view_number, tasks[k].cur_epoch) = k
        /\ \A ev \in emitted :
              ~(ev.kind = "DaProposalSend" /\ ev.view_number = view_number)
        /\ emitted' = emitted \cup {Emitted("DaProposalSend", k, view_number, message)}
        /\ pending' = pending \cup
                        { Pending("DaProposalRecv", dest, message, k) : dest \in Keys }
        /\ UNCHANGED tasks

\* da.rs 91-143 on node k
NodeDaProposalRecv(k) ==
    \E ev \in pending :
        /\ ev.kind = "DaProposalRecv" /\ ev.dest = k
        /\ LET proposal == ev.payload
               view == proposal.view_number
               task == tasks[k]
               ok == /\ ~StaleProposal(task.cur_view, view)
                     /\ ~HasSavedPayload(task.saved_payloads, view)
                     /\ ~WrongLeader(ev.sender, view, task.cur_epoch)
                     /\ ProposalSignatureValid(proposal, leader(view, task.cur_epoch))
           IN pending' = (pending \ {ev}) \cup
                           IF ok THEN {Pending("DaProposalValidated", k, proposal, ev.sender)}
                           ELSE {}
        /\ UNCHANGED << tasks, emitted >>

\* da.rs 144-256 on node k, with storage and consensus state in order; the
\* network hands the vote to the leader of its view
NodeDaProposalValidated(k) ==
    \E ev \in pending :
        /\ ev.kind = "DaProposalValidated" /\ ev.dest = k
        /\ LET proposal == ev.payload
               view_number == proposal.view_number
               task == tasks[k]
               txns == proposal.encoded_transactions
               payload_commitment == vid_commitment(txns, total_nodes(task.cur_epoch))
               vote == create_da_message(k, OwnEntry(k, task.cur_epoch), payload_commitment,
                                         view_number, make_vote_token(k))
               app == Emitted("AppDaProposal", k, view_number, proposal)
               fresh == ~StaleValidated(task.consensus_view, view_number)
               votes == fresh /\ ~NoDaStake(k, task.cur_epoch) /\ ~StorageFailed(TRUE)
           IN /\ pending' = (pending \ {ev}) \cup
                              IF votes
                              THEN {Pending("DaVoteRecv",
                                            leader(view_number, task.cur_epoch), vote, k)}
                              ELSE {}
              /\ emitted' = emitted
                              \cup (IF fresh THEN {app} ELSE {})
                              \cup (IF votes
                                    THEN {Emitted("DaVoteSend", k, view_number, vote)}
                                    ELSE {})
              /\ tasks' = IF votes
                          THEN [tasks EXCEPT
                                  ![k].storage = append_da(@, view_number, payload_commitment),
                                  ![k].da_views = RecordDaView(@, view_number,
                                                               payload_commitment, TRUE),
                                  ![k].saved_payloads = RecordPayload(@, view_number, txns)]
                          ELSE tasks

\* da.rs 257-284 on node k
NodeDaVoteRecv(k) ==
    \E ev \in pending :
        /\ ev.kind = "DaVoteRecv" /\ ev.dest = k
        /\ LET vote == ev.payload
               view == vote.current_view
               task == tasks[k]
               r == IF NotViewLeader(view, task.cur_epoch, k)
                    THEN [result |-> "NotLeader", collectors |-> task.vote_collectors,
                          certs |-> {}]
                    ELSE handle_vote(task.vote_collectors, vote, task.cur_epoch,
                                     task.cur_view)
           IN /\ pending' = pending \ {ev}
              /\ tasks' = [tasks EXCEPT ![k].vote_collectors = r.collectors]
              /\ emitted' = emitted \cup
                              { Emitted("DaCertificateSend", k, view, c) : c \in r.certs }

\* da.rs 285-300 on node k: the node enters a proposed view
NodeViewChange(k) ==
    \E view \in ProposedViews :
        /\ NewerView(tasks[k].cur_view, view)
        /\ tasks' = [tasks EXCEPT ![k].cur_view = view]
        /\ UNCHANGED << pending, emitted >>

\* a step of node k
NodeStep(k) ==
    /\ \/ NodeBlockRecv(k)
       \/ NodeDaProposalRecv(k)
       \/ NodeDaProposalValidated(k)
       \/ NodeDaVoteRecv(k)
       \/ NodeViewChange(k)
    /\ UNCHANGED << public_key, cur_view, cur_epoch, consensus_view, saved_payloads,
                    da_views, storage, bus, out, votes_sent, lastEvent, result,
                    validated_sent >>
    /\ UNCHANGED << voteVars, checkVars, lockVars >>

(***************************************************************************)
(* The locks of a node: the DA task and the VID tasks it detaches share    *)
(* the consensus state (a read-write lock) and storage (a write lock).     *)
(***************************************************************************)
\* a task may take the consensus read lock / the consensus write lock / the
\* storage lock
CanRead(l) == l.writer = NoProc
CanWrite(l) == l.writer = NoProc /\ l.readers = {}
CanStore(l) == l.storage = NoProc

\* the locks a task holds
Held(l, p) ==
    (IF p \in l.readers THEN {"consensus.read"} ELSE {})
    \cup (IF l.writer = p THEN {"consensus.write"} ELSE {})
    \cup (IF l.storage = p THEN {"storage.write"} ELSE {})

\* da.rs 110-114, 145: the read guard is a temporary of the statement and
\* is dropped at its end
KeepReadGuard(l, p) == l
DropReadGuard(l, p) == [l EXCEPT !.readers = @ \ {p}]

\* da.rs 181-187: the storage guard is a temporary of the statement
DropStorageGuard(l, p) == [l EXCEPT !.storage = NoProc]

\* da.rs 205, 256: consensus_writer is dropped at the end of the arm
DropWriteGuard(l, p) == [l EXCEPT !.writer = NoProc]

\* da.rs 221: the primary network is reported down
PrimaryDownIgnored(is_primary_down) == TRUE
PrimaryDown(is_primary_down) == is_primary_down

\* da.rs 240-245: a VID share of this node exists for the view
VidShareExists(shares, view) == shares[view]

\* Consensus::calculate_and_update_vid: the share of the view is recorded
\* when it could be computed, unless the view was collected
calculate_and_update_vid(state, view, computed) ==
    IF view < state.horizon THEN state
    ELSE [state EXCEPT !.shares[view] = @ \/ computed]

\* da.rs 109-120: DaProposalRecv takes the read lock to look at the saved
\* payloads; da.rs 145: DaProposalValidated takes it to read the view
DaAcquireRead(p) ==
    /\ pc[p] = "idle"
    /\ CanRead(locks)
    /\ \E arm \in {"recv_read", "validated_read"} : pc' = [pc EXCEPT ![p] = arm]
    /\ locks' = [locks EXCEPT !.readers = @ \cup {p}]
    /\ vid_state' = [vid_state EXCEPT !.last = "none"]

\* the end of the statement that read: DaProposalRecv goes on without a
\* lock to its end; DaProposalValidated returns when the proposal is stale
\* or the node has no DA stake, and else goes on to storage
DaReleaseRead(p) ==
    /\ pc[p] \in {"recv_read", "validated_read"}
    /\ locks' = DropReadGuard(locks, p)
    /\ \E goes_on \in BOOLEAN :
          pc' = [pc EXCEPT ![p] = IF pc[p] = "validated_read" /\ goes_on
                                  THEN "storage_wait" ELSE "idle"]
    /\ vid_state' = [vid_state EXCEPT !.last = "none"]

\* da.rs 181-183: storage.write().await
DaAcquireStorage(p) ==
    /\ pc[p] = "storage_wait"
    /\ CanStore(locks)
    /\ pc' = [pc EXCEPT ![p] = "append_da"]
    /\ locks' = [locks EXCEPT !.storage = p]
    /\ vid_state' = [vid_state EXCEPT !.last = "none"]

\* da.rs 184-204: append_da returns, its error leaves handle; else the vote
\* is signed and broadcast
DaReleaseStorage(p) ==
    /\ pc[p] = "append_da"
    /\ locks' = DropStorageGuard(locks, p)
    /\ \E storage_ok \in BOOLEAN :
          pc' = [pc EXCEPT ![p] = IF StorageFailed(storage_ok) THEN "idle" ELSE "write_wait"]
    /\ vid_state' = [vid_state EXCEPT !.last = "none"]

\* da.rs 205: consensus.write().await
DaAcquireWrite(p) ==
    /\ pc[p] = "write_wait"
    /\ CanWrite(locks)
    /\ pc' = [pc EXCEPT ![p] = "update"]
    /\ locks' = [locks EXCEPT !.writer = p]
    /\ vid_state' = [vid_state EXCEPT !.last = "none"]

\* da.rs 209-256: the two updates, the VID task detached for the view of
\* the proposal when the primary network is down, the end of the arm
DaReleaseWrite(p) ==
    /\ pc[p] = "update"
    /\ locks' = DropWriteGuard(locks, p)
    /\ \E is_primary_down \in BOOLEAN, view_number \in Views :
        LET free == { t \in VidProcs : pc[t] = "unspawned" } IN
        IF PrimaryDown(is_primary_down) /\ free # {}
        THEN LET t == CHOOSE x \in free : \A y \in free : x <= y IN
             /\ pc' = [pc EXCEPT ![p] = "idle", ![t] = "vid_write_wait"]
             /\ vid_state' = [vid_state EXCEPT !.view_of[t] = view_number,
                                               !.primary_down[t] = is_primary_down,
                                               !.last = "VidTaskSpawned"]
        ELSE /\ pc' = [pc EXCEPT ![p] = "idle"]
             /\ vid_state' = [vid_state EXCEPT !.last = "none"]

\* calculate_and_update_vid takes the consensus write lock
VidAcquireWrite(t) ==
    /\ pc[t] = "vid_write_wait"
    /\ CanWrite(locks)
    /\ pc' = [pc EXCEPT ![t] = "vid_update"]
    /\ locks' = [locks EXCEPT !.writer = t]
    /\ vid_state' = [vid_state EXCEPT !.last = "none"]

\* da.rs 229-237: calculate_and_update_vid returns
VidReleaseWrite(t) ==
    /\ pc[t] = "vid_update"
    /\ locks' = DropWriteGuard(locks, t)
    /\ pc' = [pc EXCEPT ![t] = "vid_read_wait"]
    /\ \E computed \in BOOLEAN :
          vid_state' = [calculate_and_update_vid(vid_state, vid_state.view_of[t], computed)
                            EXCEPT !.last = "none"]

\* da.rs 238-240: consensus.read().await
VidAcquireRead(t) ==
    /\ pc[t] = "vid_read_wait"
    /\ CanRead(locks)
    /\ pc' = [pc EXCEPT ![t] = "vid_read"]
    /\ locks' = [locks EXCEPT !.readers = @ \cup {t}]
    /\ vid_state' = [vid_state EXCEPT !.last = "none"]

\* da.rs 240-254: the share of the view, when there is one, is broadcast
\* as VidShareRecv; the read guard lives to the end of the if let
VidReleaseRead(t) ==
    /\ pc[t] = "vid_read"
    /\ locks' = DropReadGuard(locks, t)
    /\ pc' = [pc EXCEPT ![t] = "unspawned"]
    /\ vid_state' = [vid_state EXCEPT
                        !.last = IF VidShareExists(vid_state.shares, vid_state.view_of[t])
                                 THEN "VidShareRecv" ELSE "none"]

\* another task collects the consensus state of the views below a new
\* horizon, under the consensus write lock
CollectViews ==
    /\ CanWrite(locks)
    /\ vid_state.horizon < MaxView
    /\ vid_state' = [vid_state EXCEPT
                        !.horizon = @ + 1,
                        !.shares = [v \in Views |-> IF v < vid_state.horizon + 1
                                                    THEN FALSE ELSE vid_state.shares[v]],
                        !.last = "none"]
    /\ UNCHANGED << pc, locks >>

\* the variables the tasks sharing the locks leave alone
LockFrame ==
    /\ UNCHANGED << public_key, cur_view, cur_epoch, consensus_view, saved_payloads,
                    da_views, storage, bus, out, votes_sent, lastEvent, result,
                    validated_sent >>
    /\ UNCHANGED << voteVars, checkVars, netVars >>

(***************************************************************************)
(* The handling of DaProposalValidated, one await point after the other.   *)
(* The event being handled stays at the head of the bus until the handler  *)
(* returns; pc[p] is where the DA task p is in the handler.                *)
(***************************************************************************)

\* what the steps of the handler leave alone
StepFrame ==
    /\ UNCHANGED << public_key, cur_view, cur_epoch, consensus_view, validated_sent >>
    /\ UNCHANGED << locks, vid_state >>
    /\ UNCHANGED << voteVars, checkVars, netVars >>

\* da.rs 190-200: DaVote::create_signed_vote(..).await? returns its error
VoteCreationFailed(vote_ok) == ~vote_ok

\* da.rs 145-176: the staleness check against the consensus view, the event
\* for the application and the check of the DA stake
ValidatedCheck(p) ==
    /\ ~crashed
    /\ pc[p] = "idle"
    /\ bus # << >>
    /\ LET ev == Head(bus)
           view_number == ev.proposal.view_number
           res == IF StaleValidated(consensus_view, view_number) THEN "Stale"
                  ELSE IF NoDaStake(public_key, cur_epoch) THEN "NoDaStake"
                  ELSE "Pending"
       IN
       /\ lastEvent' = Handled("DaProposalValidated", view_number, ev.sender)
       /\ result' = res
       /\ out' = IF res = "Stale" THEN {} ELSE {AppDaProposal(ev.proposal, ev.sender)}
       /\ bus' = IF res = "Pending" THEN bus ELSE Tail(bus)
       /\ pc' = [pc EXCEPT ![p] = IF res = "Pending" THEN "append_da" ELSE "idle"]
    /\ UNCHANGED << saved_payloads, da_views, storage, votes_sent >>
    /\ StepFrame

\* da.rs 177-187: the commitment is computed and the proposal appended to
\* storage; the handler returns the error of append_da
ValidatedAppendDa(p) ==
    /\ pc[p] = "append_da"
    /\ \E storage_ok \in BOOLEAN :
        LET proposal == Head(bus).proposal
            payload_commitment == vid_commitment(proposal.encoded_transactions,
                                                 total_nodes(cur_epoch))
        IN
        IF StorageFailed(storage_ok)
        THEN /\ result' = "StorageError"
             /\ bus' = Tail(bus)
             /\ pc' = [pc EXCEPT ![p] = "idle"]
             /\ UNCHANGED storage
        ELSE /\ storage' = IF storage_ok
                           THEN append_da(storage, proposal.view_number, payload_commitment)
                           ELSE storage
             /\ pc' = [pc EXCEPT ![p] = "create_signed_vote"]
             /\ UNCHANGED << result, bus >>
    /\ UNCHANGED << saved_payloads, da_views, votes_sent, out, lastEvent >>
    /\ StepFrame

\* da.rs 188-204: the vote is created and signed, and DaVoteSend is
\* broadcast; the handler returns the error of create_signed_vote
ValidatedSendVote(p) ==
    /\ pc[p] = "create_signed_vote"
    /\ \E vote_ok \in BOOLEAN :
        LET proposal == Head(bus).proposal
            view_number == proposal.view_number
            payload_commitment == vid_commitment(proposal.encoded_transactions,
                                                 total_nodes(cur_epoch))
            vote == create_da_message(public_key, OwnEntry(public_key, cur_epoch),
                                      payload_commitment, view_number,
                                      make_vote_token(public_key))
        IN
        IF VoteCreationFailed(vote_ok)
        THEN /\ result' = "VoteError"
             /\ bus' = Tail(bus)
             /\ pc' = [pc EXCEPT ![p] = "idle"]
             /\ UNCHANGED << out, votes_sent >>
        ELSE /\ out' = out \cup {[kind |-> "DaVoteSend", vote |-> vote]}
             /\ votes_sent' = votes_sent \cup
                    {[view_number |-> view_number, payload_commit |-> payload_commitment]}
             /\ pc' = [pc EXCEPT ![p] = "update_consensus"]
             /\ UNCHANGED << result, bus >>
    /\ UNCHANGED << saved_payloads, da_views, storage, lastEvent >>
    /\ StepFrame

\* da.rs 205-256: under the consensus write lock the view and the payload
\* are recorded, both errors traced and dropped; the VID task is spawned
\* when the primary network is down
ValidatedUpdateConsensus(p) ==
    /\ pc[p] = "update_consensus"
    /\ \E refuses \in BOOLEAN, is_primary_down \in BOOLEAN :
        LET proposal == Head(bus).proposal
            view_number == proposal.view_number
            txns == proposal.encoded_transactions
            payload_commitment == vid_commitment(txns, total_nodes(cur_epoch))
            da_view_ok == update_da_view_ok(da_views, view_number, refuses)
            payload_ok == update_saved_payloads(saved_payloads, view_number, txns).ok
        IN
        /\ da_views' = RecordDaView(da_views, view_number, payload_commitment, da_view_ok)
        /\ saved_payloads' = RecordPayload(saved_payloads, view_number, txns)
        /\ result' = ConsensusErrorSwallowed(da_view_ok, payload_ok)
        /\ out' = out \cup IF is_primary_down
                           THEN {[kind |-> "VidTaskSpawned", view_number |-> view_number,
                                  epoch |-> cur_epoch]}
                           ELSE {}
    /\ bus' = Tail(bus)
    /\ pc' = [pc EXCEPT ![p] = "idle"]
    /\ UNCHANGED << storage, votes_sent, lastEvent >>
    /\ StepFrame

\* Consensus::update_view, called by the consensus task while the handler
\* of the DA task is at an await point or between two events
ConsensusMovesOn ==
    /\ \E view \in Views :
        /\ view > consensus_view
        /\ consensus_view' = view
    /\ UNCHANGED << public_key, cur_view, cur_epoch, saved_payloads, da_views, storage,
                    bus, out, votes_sent, lastEvent, result, validated_sent >>
    /\ UNCHANGED << voteVars, checkVars, netVars, lockVars >>

NextProposal ==
    \/ HandleDaProposalRecv
    \/ HandleDaProposalValidated
    \/ HandleViewChange
    \/ HandleBlockRecv
    \/ ConsensusUpdateView

SpecProposal == Init /\ [][NextProposal]_vars

\* the vote path: votes arriving while views and epochs change
NextVote ==
    \/ HandleDaVoteRecv
    \/ HandleViewChange

SpecVote == Init /\ [][NextVote]_vars

\* the validation functions applied to votes and certificates
NextCheck ==
    \/ CheckVote
    \/ CheckCert
    \/ CheckViewSyncCert
    \/ CreateVote
    \/ ReplaceJustifyQc
    \/ CheckCreatedVote

SpecCheck == InitCheck /\ [][NextCheck]_vars

\* the tasks of a node taking and dropping its locks
NextLocks ==
    \/ \E p \in DaProcs : DaAcquireRead(p) /\ LockFrame
    \/ \E p \in DaProcs : DaReleaseRead(p) /\ LockFrame
    \/ \E p \in DaProcs : DaAcquireStorage(p) /\ LockFrame
    \/ \E p \in DaProcs : DaReleaseStorage(p) /\ LockFrame
    \/ \E p \in DaProcs : DaAcquireWrite(p) /\ LockFrame
    \/ \E p \in DaProcs : DaReleaseWrite(p) /\ LockFrame
    \/ \E t \in VidProcs : VidAcquireWrite(t) /\ LockFrame
    \/ \E t \in VidProcs : VidReleaseWrite(t) /\ LockFrame
    \/ \E t \in VidProcs : VidAcquireRead(t) /\ LockFrame
    \/ \E t \in VidProcs : VidReleaseRead(t) /\ LockFrame
    \/ CollectViews /\ LockFrame

SpecLocks == InitNetwork /\ [][NextLocks]_vars

\* the DA task handling validated proposals step by step, taking the next
\* event when the handler of the last returned, the consensus task moving
\* the consensus view between any two steps
NextSteps ==
    \/ (\A p \in DaProcs : pc[p] = "idle") /\ HandleDaProposalRecv
    \/ ConsensusMovesOn
    \/ \E p \in DaProcs : ValidatedCheck(p)
    \/ \E p \in DaProcs : ValidatedAppendDa(p)
    \/ \E p \in DaProcs : ValidatedSendVote(p)
    \/ \E p \in DaProcs : ValidatedUpdateConsensus(p)

SpecSteps == Init /\ [][NextSteps]_vars

\* the network: every event sent is handled in the end
NextNetwork ==
    \/ \E k \in Keys : NodeBlockRecv(k) /\ NodeStep(k)
    \/ \E k \in Keys : NodeDaProposalRecv(k) /\ NodeStep(k)
    \/ \E k \in Keys : NodeDaProposalValidated(k) /\ NodeStep(k)
    \/ \E k \in Keys : NodeDaVoteRecv(k) /\ NodeStep(k)
    \/ \E k \in Keys : NodeViewChange(k) /\ NodeStep(k)

SpecNetwork == InitNetwork /\ [][NextNetwork]_vars /\ WF_vars(NextNetwork)

(***************************************************************************)
(* Properties of the proposal path.                                        *)
(***************************************************************************)
ValidatedIn(events) == { ev \in events : ev.kind = "DaProposalValidated" }
VotesIn(events) == { ev \in events : ev.kind = "DaVoteSend" }

\* C1: the node emits DaVoteSend for at most one payload commitment per
\* view, whatever the order in which the DaProposalRecv and
\* DaProposalValidated events of the view are handled.
\* (Stated for the views this node leads in no epoch, where the proposals
\* voted on were signed by another node's key.)
C1_AtMostOneVotePerView ==
    \A a \in votes_sent, b \in votes_sent :
        ( /\ a.view_number = b.view_number
          /\ \A e \in Epochs : leader(a.view_number, e) # public_key )
        => a.payload_commit = b.payload_commit

\* C2: the saved-payload map holds at most one payload per view, and a
\* payload recorded for a view is never replaced by a later event.
C2_SavedPayloadNeverReplaced ==
    [][ /\ saved_payloads' \in [Views -> Payloads \cup {NoPayload}]
        /\ \A v \in Views :
              saved_payloads[v] # NoPayload => saved_payloads'[v] = saved_payloads[v] ]_vars

\* a validated proposal with other transactions than the saved ones of its
\* view was handled to the end, vote included
C2_Witness ==
    /\ lastEvent.kind = "DaProposalValidated"
    /\ result = "Ok"
    /\ saved_payloads[lastEvent.view_number] # NoPayload
    /\ \E ev \in VotesIn(out) :
          ev.vote.block_commitment #
            vid_commitment(saved_payloads[lastEvent.view_number], total_nodes(cur_epoch))

\* C3: every DaProposalValidated emitted carries a proposal whose signature
\* verifies under the key of the leader of its view in the current epoch
\* over the SHA-256 hash of its encoded transactions.
C3_ValidatedSignedByLeader ==
    \A ev \in ValidatedIn(out) :
        validate(leader(ev.proposal.view_number, cur_epoch), ev.proposal.signature,
                 Sha256(ev.proposal.encoded_transactions))

\* a proposal was validated in the epoch whose leaders differ from epoch 0
C3_Witness == cur_epoch = 1 /\ ValidatedIn(out) # {}

\* C4: a DaProposalRecv whose sender is not the leader of the proposal's
\* view emits no event and leaves cur_view, cur_epoch, the consensus state
\* and storage unchanged.
C4_WrongLeaderChangesNothing ==
    [][ ( /\ lastEvent'.kind = "DaProposalRecv"
          /\ lastEvent'.sender # leader(lastEvent'.view_number, cur_epoch) )
        => ( /\ out' = {}
             /\ UNCHANGED << cur_view, cur_epoch, consensus_view, saved_payloads,
                             da_views, storage, bus, votes_sent >> ) ]_vars

\* a fresh proposal for a view without payload was rejected for its sender
C4_Witness ==
    /\ lastEvent.kind = "DaProposalRecv"
    /\ lastEvent.sender # leader(lastEvent.view_number, cur_epoch)
    /\ result = "WrongLeader"

\* C5: a proposal with view + 1 < cur_view is rejected as stale and yields no
\* DaProposalValidated; one with view + 1 >= cur_view is not rejected for
\* staleness and, when otherwise valid, is validated (cur_view = 10 drops
\* view 8 and accepts view 9).
C5_StaleOffByOne ==
    /\ StaleProposal(10, 8)
    /\ ~StaleProposal(10, 9)
    /\ lastEvent.kind = "DaProposalRecv" =>
        LET view == lastEvent.view_number IN
        /\ view + 1 < cur_view => result = "Stale" /\ out = {}
        /\ view + 1 >= cur_view => result # "Stale"
        /\ ( /\ view + 1 >= cur_view
             /\ saved_payloads[view] = NoPayload
             /\ lastEvent.sender = leader(view, cur_epoch)
             /\ result # "BadSignature" )
           => ( /\ result = "Ok"
                /\ \E ev \in ValidatedIn(out) : ev.proposal.view_number = view )

\* a proposal one view older than cur_view was validated
C5_Witness ==
    /\ lastEvent.kind = "DaProposalRecv"
    /\ lastEvent.view_number + 1 = cur_view
    /\ ValidatedIn(out) # {}

\* C6: a DaProposalRecv for a view that has a saved payload emits no
\* DaProposalValidated, whoever sent it and whatever its signature.
C6_DuplicatePayloadRejected ==
    ( /\ lastEvent.kind = "DaProposalRecv"
      /\ saved_payloads[lastEvent.view_number] # NoPayload )
    => ( out = {} /\ result \in {"Stale", "DuplicatePayload"} )

\* a proposal of the view's leader was rejected because of the saved payload
C6_Witness ==
    /\ lastEvent.kind = "DaProposalRecv"
    /\ saved_payloads[lastEvent.view_number] # NoPayload
    /\ lastEvent.sender = leader(lastEvent.view_number, cur_epoch)
    /\ result = "DuplicatePayload"

(***************************************************************************)
(* Properties of the vote path.                                            *)
(***************************************************************************)
CertsIn(events) == { ev \in events : ev.kind = "DaCertificateSend" }

\* the keys whose signatures are folded into an aggregate
SignersOf(aggregate) == { sig.signer : sig \in aggregate }

\* the stake table positions of a set of keys
PositionsOf(table, keys) == { i \in 1..Len(table) : table[i].stake_key \in keys }

\* C7: every DA certificate emitted by vote accumulation has a bitset whose
\* selected members hold stake >= success_threshold, each selected member
\* has a validated DA vote for the certificate's commitment in the
\* aggregate, and is_valid_cert accepts the certificate for its commitment.
C7_CertificateThresholdSafe ==
    \A ev \in CertsIn(out) :
        LET cert == ev.cert
            table == StakeTable(cur_epoch)
            msg == VoteDataCommit(VoteData("DA", cert.leaf_commitment))
        IN /\ SumStake(table, cert.signatures.bitset) >= success_threshold(cur_epoch)
           /\ \A i \in cert.signatures.bitset :
                 Sign(table[i].stake_key, msg) \in cert.signatures.sig
           /\ is_valid_cert(cert, cert.leaf_commitment, cur_epoch)

\* C8: a vote fed to the accumulator of its view from a signer the
\* accumulator has already counted changes neither stake, bitset nor
\* aggregate and returns Pending (the accumulator, Either::Left).
C8_CountedSignerChangesNothing ==
    [][ ( /\ lastEvent'.kind = "DaVoteRecv"
          /\ result' \notin {"NotLeader", "StaleView"}
          /\ lastEvent'.sender \in vote_collectors[lastEvent'.view_number].signers )
        => ( /\ vote_collectors' = vote_collectors
             /\ result' \in {"DuplicateSigner", "InvalidVote"}
             /\ out' = {}
             /\ ~crashed' ) ]_vars

\* C9: DaCertificateSend is emitted at most once per view, and a vote for a
\* view whose certificate was emitted is discarded without a certificate.
C9_AtMostOneCertificatePerView ==
    /\ \A v \in Views : certs_sent[v] <= 1
    /\ ( lastEvent.kind = "DaVoteRecv" /\ result = "Discarded" )
       => ( out = {} /\ vote_collectors[lastEvent.view_number] = FinishedCollector )

\* a valid vote of a member was delivered after the certificate of its view
C9_Witness ==
    /\ lastEvent.kind = "DaVoteRecv"
    /\ result = "Discarded"
    /\ certs_sent[lastEvent.view_number] = 1
    /\ lastEvent.sender \in {"n1", "n2", "n3"}

\* C10: a counted vote returns Pending when the stake accumulated with it
\* is below success_threshold and a Certificate when it reaches it, and the
\* certificate's bitset marks exactly the stake table positions of the
\* counted signers.
C10_ThresholdEdge ==
    ( lastEvent.kind = "DaVoteRecv" /\ result \in {"Pending", "Certificate"} )
    => LET table == StakeTable(cur_epoch)
           acc == vote_collectors[lastEvent.view_number]
       IN /\ result = "Pending" =>
                \A c \in PayloadCommits :
                    /\ acc.vote_outcomes[c].stake < success_threshold(cur_epoch)
                    /\ acc.vote_outcomes[c].bitset =
                          PositionsOf(table, SignersOf(acc.vote_outcomes[c].aggregate))
          /\ result = "Certificate" =>
                \A ev \in CertsIn(out) :
                    LET counted == SignersOf(ev.cert.signatures.sig) IN
                    /\ SumStake(table, PositionsOf(table, counted))
                          >= success_threshold(cur_epoch)
                    /\ ev.cert.signatures.bitset = PositionsOf(table, counted)

\* C11: a DaVoteRecv at a node that is not the leader of the vote's view in
\* cur_epoch is rejected: no accumulator is created or changed and no
\* DaCertificateSend is emitted; a certificate is emitted only by the
\* leader of its view.
C11_NotLeaderRejected ==
    [][ /\ ( /\ lastEvent'.kind = "DaVoteRecv"
             /\ leader(lastEvent'.view_number, cur_epoch) # public_key )
           => ( /\ result' = "NotLeader"
                /\ vote_collectors' = vote_collectors
                /\ certs_sent' = certs_sent
                /\ out' = {} )
        /\ \A ev \in CertsIn(out') :
              /\ ev.sender = public_key
              /\ leader(ev.cert.view_number, cur_epoch) = public_key ]_vars

\* a vote of a member for a view this node led in an earlier epoch, whose
\* collector is still accumulating, was rejected
C11_Witness ==
    /\ lastEvent.kind = "DaVoteRecv"
    /\ result = "NotLeader"
    /\ lastEvent.sender \in {"n2", "n3"}
    /\ vote_collectors[lastEvent.view_number].status = "open"

\* C12: cur_view never decreases: ViewChange(view, epoch) sets cur_view to
\* view when view > cur_view and leaves it unchanged otherwise, and no
\* other event changes it.
C12_ViewNeverDecreases ==
    [][ /\ cur_view' >= cur_view
        /\ lastEvent'.kind = "ViewChange" =>
              IF lastEvent'.view_number > cur_view
              THEN cur_view' = lastEvent'.view_number /\ result' = "Ok"
              ELSE cur_view' = cur_view /\ result' = "OlderView"
        /\ lastEvent'.kind # "ViewChange" => cur_view' = cur_view ]_vars

\* a ViewChange to an older view than cur_view was handled
C12_Witness ==
    /\ lastEvent.kind = "ViewChange"
    /\ lastEvent.view_number < cur_view
    /\ result = "OlderView"

\* C13: cur_epoch never decreases: ViewChange(view, epoch) sets cur_epoch
\* to epoch exactly when epoch > cur_epoch, and no other event changes it.
C13_EpochNeverDecreases ==
    [][ /\ cur_epoch' >= cur_epoch
        /\ lastEvent'.kind = "ViewChange" =>
              IF lastEvent'.epoch > cur_epoch
              THEN cur_epoch' = lastEvent'.epoch
              ELSE cur_epoch' = cur_epoch
        /\ lastEvent'.kind # "ViewChange" => cur_epoch' = cur_epoch ]_vars

\* a ViewChange with an older epoch than cur_epoch was handled
C13_Witness ==
    /\ lastEvent.kind = "ViewChange"
    /\ lastEvent.epoch < cur_epoch

\* C14: after a ViewChange(v, _) was handled the task holds no vote
\* accumulator for a view below v - GC_window.
C14_NoStateBelowHorizon ==
    ( lastEvent.kind = "ViewChange" /\ result = "Ok" )
    => \A u \in Views :
          u < cur_view - GCWindow => vote_collectors[u].status # "open"

VidSpawnsIn(events) == { ev \in events : ev.kind = "VidTaskSpawned" }

\* C16: when append_da fails while DaProposalValidated is handled, handle
\* returns an error and stops: no DaVoteSend for the proposal, no write of
\* the DA view map or of the saved-payload map, no VID task spawned; so a
\* vote is only ever emitted for a view whose proposal was appended.
C16_StorageFailureAborts ==
    [][ lastEvent'.kind = "DaProposalValidated"
        => /\ result' = "StorageError"
              => /\ VotesIn(out') = {}
                 /\ VidSpawnsIn(out') = {}
                 /\ votes_sent' = votes_sent
                 /\ da_views' = da_views
                 /\ saved_payloads' = saved_payloads
                 /\ storage' = storage
           /\ VotesIn(out') # {}
              => /\ result' # "StorageError"
                 /\ storage'[lastEvent'.view_number] # NoCommit ]_vars

\* the append of a validated proposal failed on a node with DA stake, for a
\* view that has no payload saved
C16_Witness ==
    /\ lastEvent.kind = "DaProposalValidated"
    /\ result = "StorageError"
    /\ has_da_stake(public_key, cur_epoch)
    /\ storage[lastEvent.view_number] = NoCommit
    /\ saved_payloads[lastEvent.view_number] = NoPayload
    /\ VotesIn(out) = {}

\* C17: a failure of update_da_view or of update_saved_payloads while
\* DaProposalValidated is handled is swallowed: the DaVoteSend is out, the
\* remaining steps run and handle returns Ok.
C17_ConsensusFailureSwallowed ==
    [][ ( /\ lastEvent'.kind = "DaProposalValidated"
          /\ VotesIn(out') # {}
          /\ \/ saved_payloads[lastEvent'.view_number] # NoPayload
             \/ /\ da_views[lastEvent'.view_number] # NoCommit
                /\ da_views'[lastEvent'.view_number] = da_views[lastEvent'.view_number] )
        => /\ result' = "Ok"
           /\ VotesIn(out') \subseteq
                { [kind |-> "DaVoteSend", vote |-> v] :
                    v \in { w \in { ev.vote : ev \in VotesIn(out') } :
                              /\ w.current_view = lastEvent'.view_number
                              /\ [view_number |-> w.current_view,
                                  payload_commit |-> w.block_commitment] \in votes_sent' } }
           /\ saved_payloads'[lastEvent'.view_number] # NoPayload
           /\ storage'[lastEvent'.view_number] # NoCommit ]_vars

\* update_da_view refused the commitment of a proposal the node voted for,
\* and the VID task was spawned all the same
C17_Witness ==
    /\ lastEvent.kind = "DaProposalValidated"
    /\ result = "Ok"
    /\ da_views[lastEvent.view_number] # NoCommit
    /\ \E ev \in VotesIn(out) : ev.vote.block_commitment # da_views[lastEvent.view_number]
    /\ VidSpawnsIn(out) # {}

(***************************************************************************)
(* Properties of vote and certificate validation.                          *)
(***************************************************************************)
\* the certificate handed to is_valid_cert carries signatures that are
\* checked: it is not a genesis certificate at the genesis view and its
\* signatures are not the genesis marker
SignaturesChecked(qc) == ~GenesisAtGenesisView(qc) /\ qc.signatures.kind # "Genesis"

\* C18: for every commitment X the vote data commitments of DA(X), Yes(X),
\* No(X), Timeout(X), ViewSyncPreCommit(X), ViewSyncCommit(X) and
\* ViewSyncFinalize(X) are pairwise distinct, so a signature made for one
\* kind over X is accepted neither by is_valid_vote nor by is_valid_cert
\* for another kind over X.
C18_NoCrossKindSignature ==
    /\ \A X \in PayloadCommits : \A k1 \in VoteKinds, k2 \in VoteKinds :
          k1 # k2 => VoteDataCommit(VoteData(k1, X)) # VoteDataCommit(VoteData(k2, X))
    /\ ( /\ checked.fn = "is_valid_vote"
         /\ verdict # "none"
         /\ checked.signed.kind # checked.data.kind
         /\ checked.signed.commit = checked.data.commit )
       => verdict = "false"
    /\ ( /\ checked.fn = "is_valid_cert"
         /\ verdict # "none"
         /\ SignaturesChecked(checked.qc)
         /\ checked.signed.kind # checked.qc.signatures.kind
         /\ checked.signed.commit = checked.qc.leaf_commitment )
       => verdict # "true"

\* a DA certificate for the commitment the caller expects, with the
\* signatures of three members over the Yes vote data of that commitment,
\* was rejected
C18_Witness ==
    /\ checked.fn = "is_valid_cert"
    /\ verdict = "false"
    /\ SignaturesChecked(checked.qc)
    /\ checked.qc.signatures.kind = "DA"
    /\ checked.qc.leaf_commitment = checked.commit
    /\ checked.signed = VoteData("Yes", checked.commit)
    /\ checked.qc.signatures.bitset = {1, 2, 3}
    /\ checked.qc.signatures.sig =
          { Sign(StakeTable(checked.epoch)[i].stake_key,
                 VoteDataCommit(VoteData("Yes", checked.commit))) : i \in {1, 2, 3} }

\* C19: is_valid_cert(cert, commit) returns true only if the certificate
\* claims genesis at the genesis view, or its aggregate verifies over the
\* commitment of the vote data of its kind under the bitset-selected
\* members of the stake table, whose summed stake is >= success_threshold.
C19_ValidCertIsGenesisOrVerified ==
    ( checked.fn = "is_valid_cert" /\ verdict = "true" )
    => LET qc == checked.qc
           table == StakeTable(checked.epoch)
       IN \/ GenesisAtGenesisView(qc)
          \/ /\ qc.signatures.kind \in {"DA", "Yes", "No"}
             /\ qc.signatures.bitset \subseteq 1..Len(table)
             /\ SumStake(table, qc.signatures.bitset) >= success_threshold(checked.epoch)
             /\ qc.signatures.sig =
                   { Sign(table[i].stake_key,
                          VoteDataCommit(VoteData(qc.signatures.kind, checked.commit))) :
                     i \in qc.signatures.bitset }

\* C20: for a certificate that is not a genesis certificate at the genesis
\* view, is_valid_cert(cert, commit) returns false whenever the commitment
\* the certificate carries differs from commit, whatever its signatures.
C20_CommitMismatchRejected ==
    ( /\ checked.fn = "is_valid_cert"
      /\ verdict # "none"
      /\ ~GenesisAtGenesisView(checked.qc)
      /\ checked.qc.leaf_commitment # checked.commit )
    => verdict = "false"

\* a DA certificate with the signatures of all members over the DA vote
\* data of the commitment it carries was rejected for another commitment
C20_Witness ==
    /\ checked.fn = "is_valid_cert"
    /\ verdict = "false"
    /\ ~GenesisAtGenesisView(checked.qc)
    /\ checked.qc.leaf_commitment # checked.commit
    /\ checked.qc.signatures.kind = "DA"
    /\ checked.qc.signatures.bitset = {1, 2, 3, 4}
    /\ BitVectorQCCheck(StakeTable(checked.epoch), success_threshold(checked.epoch),
                        VoteDataCommit(VoteData("DA", checked.qc.leaf_commitment)),
                        checked.qc.signatures)

(***************************************************************************)
(* Properties of proposal creation and of the application events.          *)
(***************************************************************************)
ProposalSendsIn(events) == { ev \in events : ev.kind = "DaProposalSend" }
AppProposalsIn(events) == { ev \in events : ev.kind = "AppDaProposal" }

\* C21: a DA proposal for view v is created only by leader(v) and at most
\* once: a DaProposalSend for view v is emitted only on the node that leads
\* v, and not again by the event that follows one that emitted it.
C21_ProposalOnceByLeader ==
    [][ \A ev \in ProposalSendsIn(out') :
          /\ leader(ev.proposal.view_number, cur_epoch) = public_key
          /\ \A before \in ProposalSendsIn(out) :
                before.proposal.view_number # ev.proposal.view_number ]_vars

\* C22: every DaProposal event published for the application carries a
\* proposal whose sender leads the proposal's view and whose signature
\* verifies under that leader over the hash of its encoded transactions;
\* the DaProposalValidated events waiting to be handled are of that kind
\* too, so no proposal that failed or skipped validation is published.
C22_AppProposalValidated ==
    \A ev \in AppProposalsIn(out) \cup { bus[i] : i \in 1..Len(bus) } :
        /\ \E e \in Epochs : leader(ev.proposal.view_number, e) = ev.sender
        /\ validate(ev.sender, ev.proposal.signature,
                    Sha256(ev.proposal.encoded_transactions))

\* a DaProposal event was published on a node without DA stake, for a
\* proposal of the leader of its view, after the epoch changed the leaders
C22_Witness ==
    /\ AppProposalsIn(out) # {}
    /\ ~has_da_stake(public_key, cur_epoch)
    /\ cur_epoch = 1
    /\ \A ev \in AppProposalsIn(out) :
          leader(ev.proposal.view_number, 0) = ev.sender

(***************************************************************************)
(* The happy path of a network without faulty nodes.                       *)
(***************************************************************************)
\* the events of a kind for a view among the events broadcast
KindFor(events, kind, view) == { ev \in events : ev.kind = kind /\ ev.view_number = view }

\* the votes for a view that the leader of the view has handled: those
\* broadcast and no longer on their way
VotesHandled(events, waiting, view) ==
    { ev \in KindFor(events, "DaVoteSend", view) :
        \A p \in waiting : ~(p.kind = "DaVoteRecv" /\ p.payload = ev.payload) }

\* C23: happy path, 4 members of stake 1, threshold 3, no faulty node,
\* every event delivered: after the leader L of view 1 proposes, every
\* replica with DA stake eventually emits DaVoteSend and L eventually emits
\* DaCertificateSend for view 1; L emits it on handling the third distinct
\* vote, with exactly 3 bits set in the bitset.
C23_HappyPath ==
    /\ [][ ( /\ KindFor(emitted, "DaCertificateSend", 1) = {}
             /\ KindFor(emitted', "DaCertificateSend", 1) # {} )
           => /\ Cardinality(VotesHandled(emitted', pending', 1)) = 3
              /\ \A c \in KindFor(emitted', "DaCertificateSend", 1) :
                    /\ c.node = leader(1, 0)
                    /\ Cardinality(c.payload.signatures.bitset) = 3
                    /\ c.payload.signatures.bitset =
                          PositionsOf(StakeTable(0),
                                      { ev.node : ev \in VotesHandled(emitted', pending', 1) })
         ]_vars
    /\ [][ KindFor(emitted, "DaCertificateSend", 1) # {}
           => KindFor(emitted', "DaCertificateSend", 1) =
                 KindFor(emitted, "DaCertificateSend", 1) ]_vars
    /\ ( KindFor(emitted, "DaProposalSend", 1) # {} )
         ~> ( /\ \A k \in Keys :
                    has_da_stake(k, 0) =>
                        \E ev \in KindFor(emitted, "DaVoteSend", 1) : ev.node = k
              /\ \E c \in KindFor(emitted, "DaCertificateSend", 1) :
                    /\ c.node = leader(1, 0)
                    /\ Cardinality(c.payload.signatures.bitset) = 3 )

\* the leader of view 1 has sent the certificate of view 1 while the vote
\* of a fourth member was still on its way
C23_Witness ==
    /\ total_nodes(0) = 4 /\ success_threshold(0) = 3
    /\ \E c \in KindFor(emitted, "DaCertificateSend", 1) :
          Cardinality(c.payload.signatures.bitset) = 3
    /\ \E p \in pending : p.kind = "DaVoteRecv" /\ p.dest = leader(1, 0)
    /\ Cardinality(KindFor(emitted, "DaVoteSend", 1)) = 4

(***************************************************************************)
(* Properties of the locks and of the detached VID tasks.                  *)
(***************************************************************************)
\* a task is waiting for a lock
Waiting(p) == pc[p] \in {"storage_wait", "write_wait", "vid_write_wait", "vid_read_wait"}

\* a task is in the middle of its work
Active(p) == pc[p] \notin {"idle", "unspawned"}

\* an active task can take its next step: the lock it waits for is free, or
\* it waits for none
CanProceed(p) ==
    CASE pc[p] = "storage_wait" -> CanStore(locks)
      [] pc[p] \in {"write_wait", "vid_write_wait"} -> CanWrite(locks)
      [] pc[p] = "vid_read_wait" -> CanRead(locks)
      [] OTHER -> TRUE

\* C24: the DA task holds no other lock when it acquires the consensus
\* write lock, and the DA task and the detached VID tasks sharing the
\* consensus state and storage never deadlock on these locks: whenever a
\* task is waiting for a lock, some task in the middle of its work can go
\* on, and every holder of a lock can drop it without taking another.
C24_NoLockHeldAtWrite ==
    /\ \A p \in DaProcs : pc[p] \in {"write_wait", "storage_wait"} => Held(locks, p) = {}
    /\ \A p \in DaProcs : pc[p] = "update" => Held(locks, p) = {"consensus.write"}
    /\ \A p \in Procs : Waiting(p) => Held(locks, p) = {}
    /\ (\E p \in Procs : Waiting(p)) => \E q \in Procs : Active(q) /\ CanProceed(q)

\* the DA task waits for the consensus write lock while a VID task holds
\* the read lock and another VID task waits for the write lock
C24_Witness ==
    /\ \E p \in DaProcs : pc[p] = "write_wait"
    /\ \E t \in VidProcs : pc[t] = "vid_read" /\ t \in locks.readers
    /\ \E t \in VidProcs : pc[t] = "vid_write_wait"

\* C27: a detached VID task is launched only when the primary network is
\* reported down; it may outlive a change of views, and never writes the
\* consensus state of a view that has been collected; it broadcasts
\* VidShareRecv only when a VID share of this node exists for the view of
\* the proposal.
C27_DetachedVidTask ==
    /\ [][ \A t \in VidProcs :
              ( pc[t] = "unspawned" /\ pc'[t] # "unspawned" )
              => /\ vid_state'.primary_down[t]
                 /\ \E p \in DaProcs : pc[p] = "update" /\ pc'[p] = "idle" ]_vars
    /\ [][ \A v \in Views :
              v < vid_state.horizon => ( vid_state'.shares[v] = vid_state.shares[v] ) ]_vars
    /\ [][ vid_state'.last = "VidShareRecv"
           => \E t \in VidProcs :
                 /\ pc[t] = "vid_read" /\ pc'[t] = "unspawned"
                 /\ vid_state.shares[vid_state.view_of[t]] ]_vars

\* a VID task whose view was collected while it was running has written
\* the consensus state and found no share to broadcast
C27_Witness ==
    \E t \in VidProcs :
        /\ pc[t] = "vid_read"
        /\ vid_state.primary_down[t]
        /\ vid_state.view_of[t] < vid_state.horizon
        /\ ~vid_state.shares[vid_state.view_of[t]]

(***************************************************************************)
(* Properties of the handling of a validated proposal.                     *)
(***************************************************************************)
\* C25: on DaProposalValidated the staleness check is repeated against the
\* latest cur_view: when proposal.view + 1 < cur_view at handling time the
\* event is dropped, with no DaProposal event for the application, no
\* storage append, no DaVoteSend and no write of the consensus state.
C25_StaleValidatedDropped ==
    [][ ( /\ lastEvent'.kind = "DaProposalValidated"
          /\ lastEvent'.view_number + 1 < cur_view )
        => ( /\ out' = {}
             /\ UNCHANGED << storage, da_views, saved_payloads, votes_sent >> ) ]_vars

\* C26: a node without DA stake in cur_epoch that handles a fresh
\* DaProposalValidated publishes the DaProposal event for the application
\* but appends nothing to storage, emits no DaVoteSend and writes neither
\* the DA view map nor the saved payloads; only nodes with DA stake ever
\* emit DaVoteSend.
C26_NoStakeNoVote ==
    /\ [][ ( /\ lastEvent'.kind = "DaProposalValidated"
             /\ ~has_da_stake(public_key, cur_epoch)
             /\ consensus_view <= lastEvent'.view_number + 1 )
           => ( /\ result' = "NoDaStake"
                /\ AppProposalsIn(out') # {}
                /\ \A ev \in AppProposalsIn(out') :
                      ev.proposal.view_number = lastEvent'.view_number
                /\ out' = AppProposalsIn(out')
                /\ UNCHANGED << storage, da_views, saved_payloads, votes_sent >> ) ]_vars
    /\ [][ VotesIn(out') # {} /\ lastEvent'.kind = "DaProposalValidated"
           => has_da_stake(public_key, cur_epoch) ]_vars
    /\ [][ votes_sent' # votes_sent => has_da_stake(public_key, cur_epoch) ]_vars

\* a node without DA stake published the proposal of the leader of view 1
\* in epoch 1 and did nothing else
C26_Witness ==
    /\ lastEvent.kind = "DaProposalValidated"
    /\ result = "NoDaStake"
    /\ ~has_da_stake(public_key, cur_epoch)
    /\ cur_epoch = 1
    /\ lastEvent.view_number = 1
    /\ AppProposalsIn(out) # {}
    /\ votes_sent = {}

(***************************************************************************)
(* Properties of the accumulation of a single vote.                        *)
(***************************************************************************)
\* the step is the handling of this vote by the DA task
IsHandlingOf(vote) ==
    /\ lastEvent'.kind = "DaVoteRecv"
    /\ lastEvent'.view_number = vote.current_view
    /\ lastEvent'.sender = vote.signature.encoded_key
    /\ \E r \in {DaVoteRecvOutcome(vote)} :
          result' = r.result /\ vote_collectors' = r.collectors

\* the accumulator a vote is fed to: that of its view, made on the first vote
AccumulatorFor(vote) ==
    IF vote_collectors[vote.current_view].status = "none"
    THEN NewCollector ELSE vote_collectors[vote.current_view]

\* the vote got as far as the accumulator of its view
Accumulated(vote) ==
    /\ IsHandlingOf(vote)
    /\ result' \notin {"NotLeader", "StaleView", "Discarded"}

\* the step handled a vote that got as far as the accumulator of its view:
\* the votes it may have handled
AccumulatedVotes ==
    IF /\ lastEvent'.kind = "DaVoteRecv"
       /\ result' \notin {"NotLeader", "StaleView", "Discarded"}
       /\ lastEvent'.view_number \in VoteViews(public_key)
    THEN DaVotesOf(lastEvent'.view_number, cur_epoch)
    ELSE {}

\* C28: a vote whose stake entry is not in the committee stake table is
\* rejected as coming from an unknown signer: the accumulator is unchanged
\* and the task does not crash.
C28_UnknownEntryRejected ==
    [][ \A vote \in AccumulatedVotes :
          ( /\ Accumulated(vote)
            /\ position(StakeTable(cur_epoch), vote.signature.entry) = {} )
          => ( /\ ~crashed'
               /\ result' # "Panic"
               /\ out' = {}
               /\ vote_collectors'[vote.current_view] = AccumulatorFor(vote) ) ]_vars

\* C29: the stake added and the bit set for a counted vote are those of the
\* signer whose key validated the signature; a signer cannot get the
\* position and stake of another member counted by attaching that member's
\* stake entry.
C29_CountedAsSigner ==
    [][ \A vote \in AccumulatedVotes :
          ( /\ Accumulated(vote)
            /\ result' \in {"Pending", "Certificate"} )
          => LET table == StakeTable(cur_epoch)
                 key == from_bytes(vote.signature.encoded_key)
                 own == PositionsOf(table, {key})
                 old == AccumulatorFor(vote).vote_outcomes[vote.block_commitment]
                 new == vote_collectors'[vote.current_view]
                            .vote_outcomes[vote.block_commitment]
             IN /\ result' = "Pending" =>
                      /\ new.bitset = old.bitset \cup own
                      /\ new.stake = old.stake + SumStake(table, own)
                /\ result' = "Certificate" =>
                      \A ev \in CertsIn(out') :
                          ev.cert.signatures.bitset = old.bitset \cup own ]_vars

\* C30: accumulate_internal on a vote that fails is_valid_vote returns the
\* very accumulator it was given (Left): the same signers, stake and
\* aggregate, and never a certificate.
C30_InvalidVoteReturnsAccumulator ==
    [][ \A vote \in AccumulatedVotes :
          ( /\ Accumulated(vote)
            /\ ~is_valid_vote(vote.signature.encoded_key,
                              vote.signature.encoded_signature, vote.vote_data,
                              vote.vote_token, cur_epoch) )
          => ( /\ result' = "InvalidVote"
               /\ vote_collectors'[vote.current_view] = AccumulatorFor(vote)
               /\ out' = {}
               /\ certs_sent' = certs_sent
               /\ ~crashed' ) ]_vars

\* a vote that is not valid arrived at an accumulator that had counted two
\* signers and left them counted
C30_Witness ==
    /\ lastEvent.kind = "DaVoteRecv"
    /\ result = "InvalidVote"
    /\ vote_collectors[lastEvent.view_number].status = "open"
    /\ Cardinality(vote_collectors[lastEvent.view_number].signers) = 2
    /\ \E c \in PayloadCommits :
          vote_collectors[lastEvent.view_number].vote_outcomes[c].stake >= 2

(***************************************************************************)
(* Properties of is_valid_vote and of vote signing.                        *)
(***************************************************************************)
\* C31: is_valid_vote returns true exactly when the encoded key decodes to
\* a signature key, that key validates the signature over the commitment of
\* the given vote data, and the membership validates the vote token for
\* that key as Checked::Valid; an undecodable key, an invalid signature, or
\* a token checked as Inval, Unchecked or Err each give false.
C31_ValidVoteExactly ==
    ( checked.fn = "is_valid_vote" /\ verdict # "none" )
    => LET decodes == checked.encoded_key \in Keys
           signed == /\ checked.encoded_signature.signer = checked.encoded_key
                     /\ checked.encoded_signature.msg = VoteDataCommit(checked.data)
           token == validate_vote_token(checked.encoded_key, checked.vote_token,
                                        checked.epoch)
       IN /\ verdict \in {"true", "false"}
          /\ verdict = "true" <=> ( decodes /\ signed /\ token = "Valid" )
          /\ ~decodes => verdict = "false"
          /\ ~signed => verdict = "false"
          /\ token \in {"Inval", "Unchecked", "Err"} => verdict = "false"

\* a vote with a decodable key and a signature of that key over its vote
\* data was rejected because the membership left its token unchecked
C31_Witness ==
    /\ checked.fn = "is_valid_vote"
    /\ verdict = "false"
    /\ checked.encoded_key = "n2"
    /\ checked.encoded_signature = Sign("n2", VoteDataCommit(checked.data))
    /\ checked.vote_token = UncheckableToken

\* C32: is_valid_cert returns a boolean for every certificate it can be
\* given: a certificate received from another node, whatever kind of
\* assembled signature it carries (DA, Yes, No, Genesis or any ViewSync
\* kind), is accepted or rejected without terminating the node.
C32_ValidCertTotal ==
    ( checked.fn = "is_valid_cert" /\ verdict # "none" )
    => verdict \in {"true", "false"}

\* the aggregate of a view sync certificate is that of the members its
\* bitset selects over the vote data of a kind on the view sync data of the
\* relay and round the certificate is checked for
VerifiesAs(kind, certificate, round, epoch) ==
    LET table == StakeTable(epoch) IN
    /\ certificate.signatures.bitset \subseteq 1..Len(table)
    /\ certificate.signatures.sig =
          { Sign(table[i].stake_key,
                 VoteDataCommit(VoteData(kind,
                     ViewSyncDataCommit(
                         ViewSyncData(leader(round + certificate.relay, epoch), round))))) :
            i \in certificate.signatures.bitset }

\* C33: is_valid_view_sync_cert checks the certificate's aggregate
\* signature against the threshold selected by the certificate's variant:
\* failure_threshold for a PreCommit certificate and success_threshold for
\* Commit and Finalize certificates.
C33_ThresholdOfVariant ==
    ( /\ checked.fn = "is_valid_view_sync_cert"
      /\ verdict # "none"
      /\ checked.certificate.signatures.kind = KindOfVariant(checked.certificate.variant)
      /\ VerifiesAs(checked.certificate.signatures.kind, checked.certificate,
                    checked.round, checked.epoch) )
    => ( verdict = "true"
         <=> SumStake(StakeTable(checked.epoch), checked.certificate.signatures.bitset)
                >= VariantThreshold(checked.certificate.variant, checked.epoch) )

\* C34: is_valid_view_sync_cert(cert, round) returns true only if the
\* assembled signature is of the view sync kind matching the certificate's
\* variant and verifies, against the committee stake table, over the
\* commitment of that kind's vote data on
\* ViewSyncData{relay = leader(round + cert.relay), round}.
C34_ViewSyncCertVerified ==
    ( checked.fn = "is_valid_view_sync_cert" /\ verdict = "true" )
    => /\ checked.certificate.signatures.kind = KindOfVariant(checked.certificate.variant)
       /\ VerifiesAs(KindOfVariant(checked.certificate.variant), checked.certificate,
                     checked.round, checked.epoch)

\* C35: the signature of a timeout vote is made over the commitment of
\* Timeout(view number) only: two timeout votes created by the same node
\* for the same view with different justify_qc values carry the same signed
\* data, so changing the justify_qc of a timeout vote does not invalidate
\* its signature.
C35_TimeoutSignsViewOnly ==
    ( checked.fn = "vote" /\ checked.created.fn = "create_timeout_message" )
    => LET c == checked.created
           entry == OwnEntry(c.key, c.epoch)
           signed == VoteDataCommit(VoteData("Timeout", ViewCommit(c.view)))
       IN /\ checked.message.signature.encoded_signature = Sign(c.key, signed)
          /\ \A qc1 \in JustifyQcs, qc2 \in JustifyQcs :
                LET v1 == create_timeout_message(c.key, entry, qc1, c.view, c.vote_token)
                    v2 == create_timeout_message(c.key, entry, qc2, c.view, c.vote_token)
                IN /\ v1.signature = v2.signature
                   /\ v1.vote_data = v2.vote_data
          /\ ( verdict # "none" /\ validate_vote_token(c.key, c.vote_token, c.epoch) = "Valid" )
             => ( /\ verdict = "true"
                  /\ validate(c.key, checked.message.signature.encoded_signature,
                              VoteDataCommit(checked.message.vote_data)) )

\* a timeout vote of n4 whose justify_qc was replaced on its way was
\* accepted
C35_Witness ==
    /\ checked.fn = "vote"
    /\ checked.created.fn = "create_timeout_message"
    /\ checked.created.key = "n4"
    /\ checked.replaced
    /\ checked.message.justify_qc # checked.created.justify_qc
    /\ verdict = "true"

\* the commitment a created vote is about: the block or leaf commitment,
\* the commitment of the view number, or that of the view sync data
VotedCommit(c) ==
    CASE c.fn \in {"create_da_message", "create_yes_message", "create_no_message"} ->
            c.commitment
      [] c.fn = "create_timeout_message" -> ViewCommit(c.view)
      [] OTHER -> ViewSyncDataCommit(ViewSyncData(leader(c.view + c.relay, c.epoch), c.view))

\* C37: round trip of signing and validating votes: a vote message built by
\* create_da_message, create_yes_message, create_no_message,
\* create_timeout_message or create_precommit/commit/finalize_message
\* carries a vote_data variant of its own kind over the voted commitment
\* and a signature that is_valid_vote accepts for that vote_data when the
\* vote token is valid.
C37_SignValidateRoundTrip ==
    checked.fn = "vote"
    => LET c == checked.created
           message == checked.message
       IN /\ message.vote_data = VoteData(KindOfCreator(c.fn), VotedCommit(c))
          /\ message.signature.encoded_key = c.key
          /\ validate(c.key, message.signature.encoded_signature,
                      VoteDataCommit(message.vote_data))
          /\ ( verdict # "none" /\ validate_vote_token(c.key, c.vote_token, c.epoch) = "Valid" )
             => verdict = "true"
          /\ ( verdict # "none" /\ validate_vote_token(c.key, c.vote_token, c.epoch) # "Valid" )
             => verdict = "false"

\* a Yes vote or a view sync commit vote for relay 1, made by a member
\* with its own token, was accepted
C37_Witness ==
    /\ checked.fn = "vote"
    /\ verdict = "true"
    /\ checked.created.fn \in {"create_yes_message", "create_commit_message"}
    /\ checked.created.key = checked.created.vote_token.owner
    /\ checked.created.relay = 1

(***************************************************************************)
(* Round trip of proposing and validating, and the order of the steps of   *)
(* the handlers.                                                           *)
(***************************************************************************)
\* the step hands the event to the DA task of the node it is for
Delivered(ev) == ev \in pending /\ ev \notin pending'

\* C36: round trip of proposing and validating: the DaProposalSend(proposal,
\* pk) that the leader L of view v emits on BlockRecv for view v, delivered
\* as DaProposalRecv(proposal, pk) to any node with cur_view <= v + 1, the
\* same epoch and no saved payload for v, passes all checks and yields
\* DaProposalValidated(proposal, pk).
C36_ProposeValidateRoundTrip ==
    [][ \A ev \in pending :
          ( /\ ev.kind = "DaProposalRecv"
            /\ Delivered(ev)
            /\ \E sent \in emitted :
                  /\ sent.kind = "DaProposalSend"
                  /\ sent.payload = ev.payload
                  /\ sent.node = ev.sender
                  /\ sent.node = leader(sent.view_number, tasks[sent.node].cur_epoch)
                  /\ tasks[ev.dest].cur_epoch = tasks[sent.node].cur_epoch
            /\ tasks[ev.dest].cur_view <= ev.payload.view_number + 1
            /\ tasks[ev.dest].saved_payloads[ev.payload.view_number] = NoPayload )
          => /\ Pending("DaProposalValidated", ev.dest, ev.payload, ev.sender) \in pending'
             /\ validate(ev.sender, ev.payload.signature,
                         Sha256(ev.payload.encoded_transactions)) ]_vars

\* the proposal of the leader of view 1 is validated at a node that is not
\* the leader and has moved to view 1, and at the node without DA stake
C36_Witness ==
    /\ \E p \in pending :
          /\ p.kind = "DaProposalValidated"
          /\ p.dest = "n5"
          /\ p.sender = leader(1, 0)
    /\ \E p \in pending :
          /\ p.kind = "DaProposalValidated"
          /\ p.dest \notin {"n5", leader(1, 0)}
          /\ tasks[p.dest].cur_view = 1

\* C38: ViewChange(view, epoch) with view <= cur_view and epoch > cur_epoch
\* advances cur_epoch to epoch, leaves cur_view unchanged and returns a
\* dropped-event error; the epoch update is applied before, and
\* independently of, the view check.
C38_EpochAdvancesOnOlderView ==
    [][ /\ ( /\ lastEvent'.kind = "ViewChange"
             /\ lastEvent'.view_number <= cur_view
             /\ lastEvent'.epoch > cur_epoch )
           => ( /\ cur_epoch' = lastEvent'.epoch
                /\ cur_view' = cur_view
                /\ result' = "OlderView"
                /\ out' = {} )
        /\ ( lastEvent'.kind = "ViewChange" /\ lastEvent'.epoch > cur_epoch )
           => cur_epoch' = lastEvent'.epoch ]_vars

\* a ViewChange to an older view carried the epoch the task is now in
C38_Witness ==
    /\ lastEvent.kind = "ViewChange"
    /\ result = "OlderView"
    /\ lastEvent.view_number < cur_view
    /\ lastEvent.epoch = cur_epoch
    /\ cur_epoch = 1

(***************************************************************************)
(* The order of the steps of the handling of DaProposalValidated.          *)
(***************************************************************************)
\* the view of the validated proposal the handler is working on
HandledView == Head(bus).proposal.view_number

\* a DaVoteSend for the view was emitted
VoteSentFor(view) == \E vote \in votes_sent : vote.view_number = view

\* the DaVoteSend events for the view among the events
VotesForIn(view, events) == { ev \in VotesIn(events) : ev.vote.current_view = view }

\* C39: while DaProposalValidated is handled on a node with DA stake, the
\* proposal is first appended to storage, then DaVoteSend is emitted, then
\* the DA view map and the saved payloads are written: a vote is emitted only
\* at the step after a successful append, for a view storage holds; the maps
\* are written only at the step after the vote was emitted; and so every
\* vote sent for a view finds the view in storage, and every saved payload
\* of a view finds a vote sent for the view
C39_AppendThenVoteThenRecord ==
    /\ [](\A view \in Views : VoteSentFor(view) => storage[view] # NoCommit)
    /\ [](\A view \in Views : saved_payloads[view] # NoPayload => VoteSentFor(view))
    /\ [][ \A p \in DaProcs :
            /\ storage' # storage =>
                  /\ pc[p] = "append_da"
                  /\ storage'[HandledView] # NoCommit
                  /\ VotesIn(out) = {}
            /\ (votes_sent' # votes_sent \/ VotesIn(out') \ VotesIn(out) # {}) =>
                  /\ pc[p] = "create_signed_vote"
                  /\ storage[HandledView] # NoCommit
                  /\ VotesIn(out') = VotesForIn(HandledView, out')
                  /\ VoteSentFor(HandledView)'
                  /\ UNCHANGED << saved_payloads, da_views >>
            /\ (saved_payloads' # saved_payloads \/ da_views' # da_views) =>
                  /\ pc[p] = "update_consensus"
                  /\ VotesForIn(HandledView, out) # {}
                  /\ VoteSentFor(HandledView)
                  /\ storage[HandledView] # NoCommit
         ]_vars

\* the handler went through all its steps: the view it handled is in
\* storage, its vote was emitted and its payload is saved
C39_Witness ==
    /\ \A p \in DaProcs : pc[p] = "idle"
    /\ lastEvent.kind = "DaProposalValidated"
    /\ result = "Ok"
    /\ has_da_stake(public_key, cur_epoch)
    /\ VotesForIn(lastEvent.view_number, out) # {}
    /\ storage[lastEvent.view_number] # NoCommit
    /\ saved_payloads[lastEvent.view_number] # NoPayload
    /\ da_views[lastEvent.view_number] # NoCommit

(***************************************************************************)
(* DaProposalValidated comes from a handled DaProposalRecv only.           *)
(***************************************************************************)
\* the step handles a DaProposalRecv
RecvHandled == lastEvent'.kind = "DaProposalRecv"

\* the checks of the handled DaProposalRecv, in the state it was handled in
RecvStale == StaleProposal(cur_view, lastEvent'.view_number)
RecvDuplicate == HasSavedPayload(saved_payloads, lastEvent'.view_number)
RecvWrongLeader == WrongLeader(lastEvent'.sender, lastEvent'.view_number, cur_epoch)

\* C40: a DaProposalValidated(p, s) is emitted, and put on the bus, only by
\* the handling of a DaProposalRecv(p, s) that passed the staleness check,
\* then the duplicate-payload check, then the leader check, then the
\* signature check (the error returned is that of the first check that
\* fails, in this order); a handled DaProposalRecv emits at most one
\* DaProposalValidated and changes neither the task nor the consensus state
C40_ValidatedAfterCheckedRecv ==
    [][ /\ (ValidatedIn(out') # {} /\ out' # out) => RecvHandled
        /\ Len(bus') > Len(bus) =>
              /\ RecvHandled
              /\ result' = "Ok"
              /\ \E ev \in ValidatedIn(out') : bus' = Append(bus, ev)
        /\ RecvHandled =>
              /\ result' = "Stale" <=> RecvStale
              /\ result' = "DuplicatePayload" <=> ~RecvStale /\ RecvDuplicate
              /\ result' = "WrongLeader" <=>
                    ~RecvStale /\ ~RecvDuplicate /\ RecvWrongLeader
              /\ result' \in {"BadSignature", "Ok"} <=>
                    ~RecvStale /\ ~RecvDuplicate /\ ~RecvWrongLeader
              /\ result' # "Ok" => out' = {}
              /\ result' = "Ok" =>
                    /\ out' = ValidatedIn(out')
                    /\ Cardinality(out') = 1
                    /\ \A ev \in out' :
                          /\ ev.proposal.view_number = lastEvent'.view_number
                          /\ ev.sender = lastEvent'.sender
                          /\ ProposalSignatureValid(ev.proposal,
                                                    leader(lastEvent'.view_number, cur_epoch))
              /\ UNCHANGED << public_key, cur_view, cur_epoch, consensus_view,
                              saved_payloads, da_views, storage, votes_sent >>
              /\ UNCHANGED voteVars
      ]_vars

\* a DaProposalRecv that is not the first of the run passed the four checks,
\* at a view the task had moved to, and its DaProposalValidated is on the bus
C40_Witness ==
    /\ lastEvent.kind = "DaProposalRecv"
    /\ result = "Ok"
    /\ cur_view > 0
    /\ Cardinality(ValidatedIn(out)) = 1
    /\ bus # << >>
    /\ bus[Len(bus)] \in out
    /\ validated_sent = 2
=============================================================================
